---- MODULE Spec2Model ----
(***************************************************************************)
(* A model of gcsfs/core.py: the transfer-and-consistency engine of the    *)
(* GCS filesystem (listing cache, write engine, read cache, batch delete). *)
(*                                                                         *)
(* The module holds one state machine per component.  Every component has  *)
(* its own variables and its own specification (SpecCoalesce, SpecRead,    *)
(* SpecRm, SpecUpload, SpecPipe, SpecFS); a specification leaves the       *)
(* variables of the other components at their idle values.                 *)
(*                                                                         *)
(* Python values: None is the string "None" where the other values are     *)
(* strings, and NoneInt (-1) where they are natural numbers.  A raised     *)
(* exception is an outcome named after its class ("ValueError", ...).      *)
(***************************************************************************)
EXTENDS Integers, Sequences, FiniteSets, TLC

\* _coalesce_generation: the arguments, the value returned (or the exception).
VARIABLES cg_args, cg_result, cg_pc

\* GCSFile (mode "rb") over GCSTranscodingReadAheadCache: the decoded content of
\* the object, the size the handle was opened with, the cache's block and the
\* handle's position; rd_log is the history of read() calls and their results,
\* rd_fetches the fetcher calls of the last read().
VARIABLES rd_content, rd_size, rd_blocksize, rd_cache, rd_start, rd_end, rd_loc,
          rd_log, rd_fetches

\* The filesystem's listing cache (GCSFileSystem.dircache): a function from
\* the cached paths to their listings.
VARIABLES dircache

\* _rm_files: the `paths` still to delete, the input, `out`, the loop index
\* `retry`, the position in the coroutine, the batch requests issued, the
\* waits slept (in 1/1000 s) and whether every sub-response so far carried a
\* retryable status.
VARIABLES rm_paths, rm_input, rm_out, rm_retry, rm_pc, rm_requests, rm_sleeps,
          rm_allRetryable, rm_result, rm_responses

\* The store's side of one resumable session: the bytes it has persisted,
\* whether the object is finalised, the sessions created, the multipart
\* (single-shot) requests served, the DELETEs of a session, and whether it
\* ever persisted nothing of a non-empty chunk, and how many chunks it
\* persisted only in part.
VARIABLES sv_received, sv_done, sv_sessions, sv_multipart, sv_deleted, sv_stalled,
          sv_shorts, sv_corrupt

\* A write handle (GCSFile, mode "wb"): buffer, offset, location, loc,
\* autocommit, forced, closed as in the class; wh_checker is what the
\* consistency checker has absorbed, wh_validated the outcome of its
\* validation; wh_pc, wh_final and wh_caller are the position inside
\* write/close/commit -> flush -> _upload_chunk; wh_writes counts write()
\* calls; wh_req is the last chunk request and wh_short tells whether any
\* acknowledgement fell short; wh_discarded tells whether discard() has been
\* called and has returned.
VARIABLES wh_buffer, wh_offset, wh_location, wh_loc, wh_autocommit, wh_forced,
          wh_closed, wh_consistency, wh_checker, wh_validated, wh_pc, wh_final,
          wh_caller, wh_writes, wh_req, wh_short, wh_discarded

\* The objects of the store: a function from the paths bucket/key of the
\* objects to their content and contentEncoding.
VARIABLES store

\* _pipe_file / _put_file of one payload to one path: which of the two runs,
\* len(data), the consistency mode, the position in the coroutine, the loop's
\* offset, the data and offset arguments of the running upload_chunk call,
\* `out`, what the checker absorbed, the outcome of its validation, the last
\* chunk request, whether an acknowledgement fell short, and the outcome of
\* reading the path back.
VARIABLES pf_kind, pf_size, pf_consistency, pf_pc, pf_offset, pf_bit, pf_uoffset,
          pf_out, pf_checker, pf_validated, pf_req, pf_short, pf_result

\* Filesystem calls against the listing cache: the last call with its result
\* and the number of store requests it issued, the call before it, the
\* number of calls made, the objects of the store that keep a noncurrent
\* generation besides the live one (object versioning), the buckets of the
\* project in the order the store lists them, and the version_aware flag the
\* filesystem was constructed with.
VARIABLES fs_call, fs_prev, fs_steps, fs_noncurrent, fs_buckets, fs_version_aware

\* One call of _split_path: the path, the version_aware flag, the tuple
\* returned and the position of the call.
VARIABLES sp_path, sp_version_aware, sp_result, sp_pc

\* The groups of _rm_files that _rm runs together: the state of each group
\* with what it returned or raised, and the outcome of _rm.
VARIABLES fo_groups, fo_result

\* The transport session of one filesystem instance and the requests that
\* run on it concurrently: _session (0 for None), the sessions created, the
\* finalizers registered, and per request task its position, the requests it
\* has made and the session its last request went through.
VARIABLES ss_session, ss_created, ss_finalizers, ss_pc, ss_made, ss_used

\* A listing of a directory and a delete of an object that run as two tasks
\* of one filesystem: the position of each, the path it was called with, and
\* the answer of the store the listing is waiting to resume with.
VARIABLES il_list, il_rm

cgVars == <<cg_args, cg_result, cg_pc>>
spVars == <<sp_path, sp_version_aware, sp_result, sp_pc>>
foVars == <<fo_groups, fo_result>>
ilVars == <<il_list, il_rm>>
ssVars == <<ss_session, ss_created, ss_finalizers, ss_pc, ss_made, ss_used>>
pfVars == <<pf_kind, pf_size, pf_consistency, pf_pc, pf_offset, pf_bit, pf_uoffset,
            pf_out, pf_checker, pf_validated, pf_req, pf_short, pf_result>>
fsVars == <<fs_call, fs_prev, fs_steps, fs_noncurrent, fs_buckets, fs_version_aware>>
svVars == <<sv_received, sv_done, sv_sessions, sv_multipart, sv_deleted, sv_stalled,
            sv_shorts, sv_corrupt>>
whVars == <<wh_buffer, wh_offset, wh_location, wh_loc, wh_autocommit, wh_forced,
            wh_closed, wh_consistency, wh_checker, wh_validated, wh_pc, wh_final,
            wh_caller, wh_writes, wh_req, wh_short, wh_discarded>>
rmVars == <<rm_paths, rm_input, rm_out, rm_retry, rm_pc, rm_requests, rm_sleeps,
            rm_allRetryable, rm_result, rm_responses>>
rdVars == <<rd_content, rd_size, rd_blocksize, rd_cache, rd_start, rd_end, rd_loc,
            rd_log, rd_fetches>>

cgOthers == <<rdVars, rmVars, dircache, svVars, whVars, store, pfVars, fsVars, spVars,
             foVars, ssVars, ilVars>>
rdOthers == <<cgVars, rmVars, dircache, svVars, whVars, store, pfVars, fsVars, spVars,
             foVars, ssVars, ilVars>>
rmOthers == <<cgVars, rdVars, svVars, whVars, store, pfVars, fsVars, spVars,
             foVars, ssVars, ilVars>>
whOthers == <<cgVars, rdVars, rmVars, pfVars, fsVars, spVars,
             foVars, ssVars, ilVars>>
pfOthers == <<cgVars, rdVars, rmVars, whVars, fsVars, spVars,
             foVars, ssVars, ilVars>>
fsOthers == <<cgVars, rdVars, rmVars, whVars, svVars, pfVars, spVars,
             foVars, ssVars, ilVars>>
spOthers == <<cgVars, rdVars, rmVars, dircache, svVars, whVars, store, pfVars, fsVars,
             foVars, ssVars, ilVars>>
foOthers == <<cgVars, rdVars, rmVars, dircache, svVars, whVars, store, pfVars, fsVars,
             spVars, ssVars, ilVars>>
ssOthers == <<cgVars, rdVars, rmVars, dircache, svVars, whVars, store, pfVars, fsVars,
             spVars, foVars, ilVars>>
ilOthers == <<cgVars, rdVars, rmVars, svVars, whVars, pfVars, fsVars,
             spVars, foVars, ssVars>>

None == "None"
NoneInt == -1

\* The element of a singleton
Only(S) == CHOOSE v \in S : TRUE

ValueError == "ValueError"
TypeError == "TypeError"
KeyError == "KeyError"
FileNotFoundError == "FileNotFoundError"

Min(a, b) == IF a <= b THEN a ELSE b
Max(a, b) == IF a >= b THEN a ELSE b

(***************************************************************************)
(* _coalesce_generation                                                    *)
(***************************************************************************)
\* Bounds of the inputs drawn for _coalesce_generation.
MaxArgs == 3
GenerationValues == {None, "5", "6", ""}

ArgTuples == UNION {[1..n -> GenerationValues] : n \in 0..MaxArgs}

\* A plausible slip: the conflict test dropped, the first defined value wins.
_coalesce_generation_first(args) ==
    LET defined == {i \in DOMAIN args : args[i] /= None}
    IN  IF defined = {} THEN None
        ELSE args[CHOOSE i \in defined : \A j \in defined : i <= j]

_coalesce_generation(args) ==
    LET generations == {args[i] : i \in DOMAIN args} \ {None}
    IN  IF Cardinality(generations) > 1 THEN ValueError
        ELSE IF Cardinality(generations) = 0 THEN None
        ELSE CHOOSE g \in generations : TRUE

InitCoalesce ==
    /\ cg_args \in ArgTuples
    /\ cg_result = "unset"
    /\ cg_pc = "call"

IdleCoalesce ==
    /\ cg_args = <<>>
    /\ cg_result = "unset"
    /\ cg_pc = "idle"

\* C9: _coalesce_generation returns None when every argument is None, the
\* single distinct defined value when there is exactly one (however often and
\* wherever it occurs), and raises ValueError when two arguments are defined
\* and differ.
C9_Coalesce ==
    cg_pc = "done" =>
        LET defined == {i \in DOMAIN cg_args : cg_args[i] /= None}
            conflict == \E i, j \in defined : cg_args[i] /= cg_args[j]
        IN  /\ (defined = {}) => (cg_result = None)
            /\ conflict => (cg_result = ValueError)
            /\ (defined /= {} /\ ~ conflict) =>
                   \A i \in defined : cg_result = cg_args[i]

\* A call with None among the arguments and one value given twice.
C9_Witness ==
    /\ cg_pc = "done"
    /\ Len(cg_args) = 3
    /\ \E i, j, k \in 1..3 :
           /\ i /= j
           /\ cg_args[i] = cg_args[j]
           /\ cg_args[i] /= None
           /\ cg_args[k] = None
    /\ cg_result \notin {None, ValueError}

CallCoalesce ==
    /\ cg_pc = "call"
    /\ cg_result' = _coalesce_generation(cg_args)
    /\ cg_pc' = "done"
    /\ UNCHANGED cg_args
    /\ UNCHANGED cgOthers

(***************************************************************************)
(* Paths.  A path is the sequence of its characters; P("b/a") is written   *)
(* <<"b", "/", "a">>.  The protocol prefix "gs://" is one element.         *)
(***************************************************************************)
Root == <<>>

RECURSIVE rstrip(_)
\* str.rstrip("/")
rstrip(p) ==
    IF p /= <<>> /\ p[Len(p)] = "/" THEN rstrip(SubSeq(p, 1, Len(p) - 1)) ELSE p

RECURSIVE lstrip(_)
\* str.lstrip("/")
lstrip(p) == IF p /= <<>> /\ p[1] = "/" THEN lstrip(Tail(p)) ELSE p

\* str.strip("/")
strip(p) == lstrip(rstrip(p))

HasSlash(p) == \E i \in DOMAIN p : p[i] = "/"
FirstSlash(p) == CHOOSE i \in DOMAIN p : p[i] = "/" /\ \A j \in 1..(i - 1) : p[j] /= "/"
LastSlash(p) == CHOOSE i \in DOMAIN p : p[i] = "/" /\ \A j \in (i + 1)..Len(p) : p[j] /= "/"

\* str.startswith
StartsWith(p, q) == Len(q) <= Len(p) /\ SubSeq(p, 1, Len(q)) = q

\* GCSFileSystem._strip_protocol (root_marker is "").
_strip_protocol(path) ==
    IF path /= <<>> /\ path[1] = "gs://" THEN Tail(path) ELSE path

\* AbstractFileSystem._parent, as GCSFileSystem inherits it.
_parent(path) ==
    LET p == _strip_protocol(path)
    IN  IF HasSlash(p) THEN SubSeq(p, 1, LastSlash(p) - 1) ELSE Root

\* GCSFileSystem.split_path with version_aware off: (bucket, key, generation).
split_path(path) ==
    LET p == lstrip(_strip_protocol(path))
    IN  IF ~ HasSlash(p) THEN [bucket |-> p, key |-> <<>>, generation |-> None]
        ELSE [bucket |-> SubSeq(p, 1, FirstSlash(p) - 1),
              key |-> SubSeq(p, FirstSlash(p) + 1, Len(p)),
              generation |-> None]

\* Bound: the length of the text after "bucket/" in the paths split.
MaxKey == 4

\* The characters of those texts: a letter, a digit, the delimiters of a URL,
\* and the text "generation=" taken as one element.
KeyChars == {"k", "7", ":", "?", "#", "&", "generation="}
SplitKeys == UNION {[1..n -> KeyChars] : n \in 0..MaxKey}

\* The position of the first c in s, 0 when there is none
Find(s, c) ==
    IF \E i \in DOMAIN s : s[i] = c
    THEN CHOOSE i \in DOMAIN s : s[i] = c /\ \A j \in 1..(i - 1) : s[j] /= c
    ELSE 0

\* urllib.parse.urlsplit(url) on such a text: a scheme is what precedes the
\* first ":" when it starts with a letter and holds letters and digits only;
\* the fragment follows the first "#", the query the first "?" before it.
\* (No text here begins with "//", so there is no netloc.)
urlsplit(url) ==
    LET colon == Find(url, ":")
        scheme == /\ colon > 1
                  /\ url[1] = "k"
                  /\ \A i \in 1..(colon - 1) : url[i] \in {"k", "7"}
        u1 == IF scheme THEN SubSeq(url, colon + 1, Len(url)) ELSE url
        hash == Find(u1, "#")
        u2 == IF hash > 0 THEN SubSeq(u1, 1, hash - 1) ELSE u1
        qm == Find(u2, "?")
    IN  [path |-> IF qm > 0 THEN SubSeq(u2, 1, qm - 1) ELSE u2,
         query |-> IF qm > 0 THEN SubSeq(u2, qm + 1, Len(u2)) ELSE <<>>,
         fragment |-> IF hash > 0 THEN SubSeq(u1, hash + 1, Len(u1)) ELSE <<>>]

RECURSIVE GenerationParam(_)
\* parse_qs(query)["generation"][0], the empty text when "generation" is not
\* among the parameters: the parameters are separated by "&", one without
\* "=" or without a value is dropped, and the first value of a name counts.
GenerationParam(query) ==
    IF query = <<>> THEN <<>>
    ELSE LET amp == Find(query, "&")
             first == IF amp > 0 THEN SubSeq(query, 1, amp - 1) ELSE query
             rest == IF amp > 0 THEN SubSeq(query, amp + 1, Len(query)) ELSE <<>>
         IN  IF first /= <<>> /\ first[1] = "generation=" /\ Len(first) > 1
             THEN Tail(first)
             ELSE GenerationParam(rest)

\* int(text) does not raise ValueError: digits only, at least one
IsInt(text) == text /= <<>> /\ \A i \in DOMAIN text : text[i] = "7"

\* GCSFileSystem._split_path(path, version_aware): (bucket, key, generation);
\* the empty text stands for the generation None.
_split_path(path0, version_aware) ==
    LET path == lstrip(_strip_protocol(path0))
        keypart == SubSeq(path, FirstSlash(path) + 1, Len(path))
        parts == urlsplit(keypart)
        generation == IF parts.fragment /= <<>> THEN parts.fragment
                      ELSE IF parts.query /= <<>> THEN GenerationParam(parts.query)
                      ELSE <<>>
    IN  IF ~ HasSlash(path) THEN [bucket |-> path, key |-> <<>>, generation |-> <<>>]
        ELSE IF version_aware /\ generation /= <<>> /\ IsInt(generation)
        THEN [bucket |-> SubSeq(path, 1, FirstSlash(path) - 1),
              key |-> parts.path, generation |-> generation]
        ELSE [bucket |-> SubSeq(path, 1, FirstSlash(path) - 1),
              key |-> keypart, generation |-> <<>>]

NoSplit == [bucket |-> <<>>, key |-> <<>>, generation |-> <<>>]

InitSplit ==
    /\ sp_path \in {<<"b", "/">> \o k : k \in SplitKeys}
    /\ sp_version_aware \in BOOLEAN
    /\ sp_result = NoSplit
    /\ sp_pc = "call"

IdleSplit ==
    /\ sp_path = <<>>
    /\ sp_version_aware = FALSE
    /\ sp_result = NoSplit
    /\ sp_pc = "idle"

CallSplit ==
    /\ sp_pc = "call"
    /\ sp_result' = _split_path(sp_path, sp_version_aware)
    /\ sp_pc' = "done"
    /\ UNCHANGED <<sp_path, sp_version_aware>>
    /\ UNCHANGED spOthers

\* C18: generation addressing in _split_path.  With version_aware on, the
\* fragment (the text after the first "#") is the value selected when it is
\* not empty, else the generation parameter of the query (the text between
\* the first "?" and the "#"); a selected value that parses as an integer is
\* returned as the generation and the key is the text before the first "?"
\* or "#"; otherwise the generation is None and the key is the whole text
\* after the bucket.  With version_aware off the generation is always None.
C18_GenerationAddressing ==
    sp_pc = "done" =>
        LET text == SubSeq(sp_path, 3, Len(sp_path))
            marks == {i \in DOMAIN text : text[i] \in {"?", "#"}}
            hashes == {i \in DOMAIN text : text[i] = "#"}
            h == IF hashes = {} THEN Len(text) + 1
                 ELSE CHOOSE i \in hashes : \A j \in hashes : i <= j
            m == IF marks = {} THEN Len(text) + 1
                 ELSE CHOOSE i \in marks : \A j \in marks : i <= j
            fragment == SubSeq(text, h + 1, Len(text))
            query == SubSeq(text, m + 1, h - 1)
            selected == IF fragment /= <<>> THEN fragment ELSE GenerationParam(query)
        IN  /\ sp_result.bucket = <<"b">>
            /\ ~ sp_version_aware =>
                   (sp_result.generation = <<>> /\ sp_result.key = text)
            /\ (sp_version_aware /\ IsInt(selected)) =>
                   /\ sp_result.generation = selected
                   /\ sp_result.key = SubSeq(text, 1, m - 1)
            /\ (sp_version_aware /\ ~ IsInt(selected)) =>
                   (sp_result.generation = <<>> /\ sp_result.key = text)

(***************************************************************************)
(* The listing cache                                                       *)
(***************************************************************************)
\* dict.pop(path, None)
Pop(cache, path) == [q \in DOMAIN cache \ {path} |-> cache[q]]

RECURSIVE PopUpwards(_, _)
\* the loop of invalidate_cache: pop the path, then its parents, while the
\* path is not empty
PopUpwards(cache, path) ==
    IF path = <<>> THEN cache
    ELSE PopUpwards(Pop(cache, path), _parent(path))

\* An invalidation that leaves the cache as it is.
invalidate_cache_nothing(cache, path) == cache

\* GCSFileSystem.invalidate_cache(path); path "all" stands for path=None.
invalidate_cache(cache, path) ==
    IF path = "all" THEN <<>>
    ELSE PopUpwards(cache, rstrip(_strip_protocol(path)))

RECURSIVE InvalidateEach(_, _)
\* [self.invalidate_cache(p) for p in paths], paths a set
InvalidateEach(cache, paths) ==
    IF paths = {} THEN cache
    ELSE LET q == CHOOSE x \in paths : TRUE
         IN  InvalidateEach(invalidate_cache(cache, q), paths \ {q})

\* A file record and an implied directory record of a listing.
FileRecord(name, size, encoding) ==
    [name |-> name, type |-> "file", size |-> size, contentEncoding |-> encoding]
DirRecord(name) ==
    [name |-> name, type |-> "directory", size |-> 0, contentEncoding |-> "absent"]

IdleCache == dircache = <<>>

(***************************************************************************)
(* Batch delete engine: _rm_files                                          *)
(***************************************************************************)
\* Bound: the number of paths of one _rm_files call.
MaxPaths == 2

P_bx == <<"b", "/", "x">>
P_by == <<"b", "/", "y">>
P_bay == <<"b", "/", "a", "/", "y">>
P_b == <<"b">>
P_ba == <<"b", "/", "a">>
RmUniverse == {P_bx, P_by, P_bay}

\* The statuses a sub-response may carry, and the retryable ones (retry.errs).
StatusCodes == {200, 204, 404, 503}
errs == {408, 429, 500, 501, 502, 503, 504}

\* random.random(), in 1/1000
Jitter == {0, 999}
Thousand == 1000

RECURSIVE Pow2(_)
Pow2(n) == IF n = 0 THEN 1 ELSE 2 * Pow2(n - 1)

\* min(random.random() + 2 ** (retry - 1), 32), in 1/1000 s
Backoff(r, retry) == Min(r + Thousand * Pow2(retry - 1), 32 * Thousand)

\* Sequences of distinct paths of the universe, at most MaxPaths long
RmInputs ==
    {q \in UNION {[1..n -> RmUniverse] : n \in 1..MaxPaths} :
        \A i, j \in DOMAIN q : i /= j => q[i] /= q[j]}

\* Cached listings the filesystem may hold when _rm_files starts
RmCaches ==
    {<<>>,
     [d \in {P_b, P_ba} |->
        IF d = P_b THEN <<DirRecord(P_ba), FileRecord(P_bx, 1, "absent"),
                          FileRecord(P_by, 1, "absent")>>
        ELSE <<FileRecord(P_bay, 1, "absent")>>]}

\* The outcome of _rm: not there yet, the list returned, or the exception
\* raised (item: the position in `exs` of the failure raised, 0 when the
\* exception is not one of the items).
NoRmResult == [stage |-> "pending", exc |-> None, item |-> 0, out |-> <<>>]

InitRm ==
    /\ rm_result = NoRmResult
    /\ rm_responses = <<>>
    /\ rm_input \in RmInputs
    /\ rm_paths = rm_input
    /\ rm_out = <<>>
    /\ rm_retry = 1
    /\ rm_pc = "request"
    /\ rm_requests = 0
    /\ rm_sleeps = <<>>
    /\ rm_allRetryable = TRUE
    /\ dircache \in RmCaches

IdleRm ==
    /\ rm_result = NoRmResult
    /\ rm_responses = <<>>
    /\ rm_input = <<>>
    /\ rm_paths = <<>>
    /\ rm_out = <<>>
    /\ rm_retry = 0
    /\ rm_pc = "idle"
    /\ rm_requests = 0
    /\ rm_sleeps = <<>>
    /\ rm_allRetryable = TRUE

\* The loop over zip(paths, responses): the state after the first i
\* sub-responses.  responses[i] = [code, json]: the status of the embedded
\* HTTP status line, and whether the body holds a nested JSON error object.
RECURSIVE Tally(_, _, _, _)
Tally(paths, responses, retry, i) ==
    IF i = 0 THEN [out |-> <<>>, remaining |-> <<>>, exc |-> None]
    ELSE LET t == Tally(paths, responses, retry, i - 1)
             code == responses[i].code
         IN  IF t.exc /= None THEN t
             ELSE IF code \in {200, 204}
             THEN [t EXCEPT !.out = Append(@, paths[i])]
             ELSE IF code \in errs /\ retry < 5
             THEN [t EXCEPT !.remaining = Append(@, paths[i])]
             ELSE IF responses[i].json
             THEN [t EXCEPT !.out = Append(@, [OSError |-> <<paths[i], code>>])]
             ELSE \* OSError(str(path, code)): str() takes no int encoding
                  [t EXCEPT !.exc = TypeError]

\* One round: the batch POST, the invalidations, the tally of the response.
RmRound ==
    /\ rm_pc = "request"
    /\ \E responses \in [DOMAIN rm_paths -> [code : StatusCodes, json : BOOLEAN]] :
        LET t == Tally(rm_paths, responses, rm_retry, Len(rm_paths))
            parents == {_parent(q) : q \in {rm_paths[i] : i \in DOMAIN rm_paths}}
                         \cup {rm_paths[i] : i \in DOMAIN rm_paths}
        IN  /\ rm_requests' = rm_requests + 1
            /\ rm_responses' = responses
            /\ dircache' = InvalidateEach(dircache, parents)
            /\ rm_allRetryable' = (rm_allRetryable
                                     /\ \A i \in DOMAIN responses : responses[i].code \in errs)
            /\ IF t.exc /= None
               THEN /\ rm_pc' = "raised"
                    /\ UNCHANGED <<rm_out, rm_paths>>
               ELSE /\ rm_out' = rm_out \o t.out
                    /\ IF t.remaining /= <<>>
                       THEN rm_paths' = t.remaining /\ rm_pc' = "sleep"
                       ELSE rm_pc' = "done" /\ UNCHANGED rm_paths
    /\ UNCHANGED <<rm_input, rm_retry, rm_sleeps, rm_result>>
    /\ UNCHANGED rmOthers

\* One round whose batch POST fails: _call raises HttpError (a status that
\* is not retried, or retries used up) and _rm_files with it.
RmRequestFails ==
    /\ rm_pc = "request"
    /\ rm_requests' = rm_requests + 1
    /\ rm_allRetryable' = FALSE
    /\ rm_pc' = "failed"
    /\ UNCHANGED <<rm_input, rm_paths, rm_out, rm_retry, rm_sleeps, rm_result, dircache,
                   rm_responses>>
    /\ UNCHANGED rmOthers

\* await asyncio.sleep(...), then the next iteration of the loop
RmSleep ==
    /\ rm_pc = "sleep"
    /\ \E r \in Jitter : rm_sleeps' = Append(rm_sleeps, Backoff(r, rm_retry))
    /\ rm_retry' = rm_retry + 1
    /\ rm_pc' = "request"
    /\ UNCHANGED <<rm_input, rm_paths, rm_out, rm_requests, rm_allRetryable, dircache,
                   rm_result, rm_responses>>
    /\ UNCHANGED rmOthers

\* The wait before round k + 1 is min(r + 2^(k-1), 32) s with r in [0, 1): it
\* grows with k and is at most 32 s.
WaitsAsSpecified ==
    /\ \A k \in DOMAIN rm_sleeps :
           /\ \E r \in 0..(Thousand - 1) :
                  rm_sleeps[k] = Min(r + Thousand * Pow2(k - 1), 32 * Thousand)
           /\ rm_sleeps[k] <= 32 * Thousand
    /\ \A k \in DOMAIN rm_sleeps : k > 1 => rm_sleeps[k] > rm_sleeps[k - 1]

\* C6: against a server that answers every sub-request with a retryable
\* status, _rm_files issues at most 5 batch requests and then reports every
\* path as a failure (returns one error entry per input path); the waits
\* between the rounds are as specified.
C6_RetryBound ==
    rm_allRetryable =>
        /\ rm_requests <= 5
        /\ WaitsAsSpecified
        /\ rm_pc /= "raised"
        /\ (rm_pc = "done" /\ rm_requests > 0) =>
               /\ rm_requests = 5
               /\ Len(rm_sleeps) = 4
               /\ Len(rm_out) = Len(rm_input)
               /\ \A i \in DOMAIN rm_out :
                      \E c \in errs : rm_out[i] = [OSError |-> <<rm_input[i], c>>]

\* C23: per-item outcome of a round of _rm_files.  After the round, in the
\* order of the paths: a sub-response with status 200 or 204 has added its
\* path to `out`; a retryable status in one of the first four rounds has
\* added nothing and put the path into the next round; any other status has
\* added an error entry for the path, which is not tried again.
C23_PerItemOutcome ==
    [][ (rm_requests' = rm_requests + 1 /\ rm_pc' /= "failed") =>
          LET ok == {i \in DOMAIN rm_paths : rm_responses'[i].code \in {200, 204}}
              again == {i \in DOMAIN rm_paths :
                          /\ i \notin ok
                          /\ rm_responses'[i].code \in errs
                          /\ rm_retry < 5}
              recorded == (DOMAIN rm_paths) \ again
              rank(S, i) == Cardinality({j \in S : j <= i})
          IN  /\ rm_pc' \in {"sleep", "done"}
              /\ Len(rm_out') = Len(rm_out) + Cardinality(recorded)
              /\ SubSeq(rm_out', 1, Len(rm_out)) = rm_out
              /\ \A i \in recorded :
                     LET entry == rm_out'[Len(rm_out) + rank(recorded, i)]
                     IN  IF i \in ok
                         THEN DOMAIN entry /= {"OSError"} /\ entry = rm_paths[i]
                         ELSE /\ DOMAIN entry = {"OSError"}
                              /\ entry.OSError = <<rm_paths[i], rm_responses'[i].code>>
              /\ (again /= {}) =>
                     /\ rm_pc' = "sleep"
                     /\ Len(rm_paths') = Cardinality(again)
                     /\ \A i \in again : rm_paths'[rank(again, i)] = rm_paths[i]
              /\ (again = {}) => rm_pc' = "done"
      ]_<<rmVars, dircache>>

OutcomePath(entry) ==
    IF DOMAIN entry = {"OSError"} THEN entry.OSError[1] ELSE entry

\* C36: _rm_files accounts for every input path exactly once.  With one
\* sub-response per sub-request, in request order, _rm_files returns a list
\* that holds exactly one outcome (the path, or an error entry) per input
\* path, none dropped or duplicated across the retry rounds, whether or not
\* the body of a failed sub-response holds a JSON error.
C36_EveryPathOnce ==
    /\ rm_pc /= "raised"
    /\ (rm_pc = "done" /\ rm_requests > 0) =>
           /\ Len(rm_out) = Len(rm_input)
           /\ \A i \in DOMAIN rm_input :
                  Cardinality({j \in DOMAIN rm_out :
                                  OutcomePath(rm_out[j]) = rm_input[i]}) = 1

\* _rm for files of one group (at most batchsize paths, no bucket among
\* them) on Google's endpoint, once _rm_files has returned or raised: the
\* flattening of the groups' results by sum(), then the result policy.  An
\* entry of `exs` is a path deleted or an exception; "No such object" is the
\* message of the store's 404 for an object.
_rm ==
    /\ rm_pc \in {"done", "raised", "failed"}
    /\ rm_result = NoRmResult
    /\ rm_result' =
         IF rm_pc /= "done"
         THEN \* sum([exception], []): a list and an exception do not add up
              [stage |-> "raised", exc |-> TypeError, item |-> 0, out |-> <<>>]
         ELSE LET IsException(ex) == DOMAIN ex = {"OSError"}
                  AlreadyGone(ex) == IsException(ex) /\ ex.OSError[2] = 404
                  errors == {i \in DOMAIN rm_out :
                               IsException(rm_out[i]) /\ ~ AlreadyGone(rm_out[i])}
                  exs == SelectSeq(rm_out, LAMBDA ex : ~ AlreadyGone(ex))
              IN  IF errors /= {}
                  THEN [stage |-> "raised", exc |-> "OSError",
                        item |-> CHOOSE i \in errors : \A j \in errors : i <= j,
                        out |-> <<>>]
                  ELSE IF exs = <<>>
                  THEN [stage |-> "raised", exc |-> FileNotFoundError, item |-> 0,
                        out |-> <<>>]
                  ELSE [stage |-> "returned", exc |-> None, item |-> 0, out |-> exs]
    /\ UNCHANGED <<rm_input, rm_paths, rm_out, rm_retry, rm_pc, rm_requests, rm_sleeps,
                   rm_allRetryable, dircache, rm_responses>>
    /\ UNCHANGED rmOthers

\* C16: _rm raises the first captured failure that is not 'already gone',
\* as the error of that item (or of that group: the HttpError of its batch
\* request, the exception of its tally); 'already gone' failures alone never
\* make it fail when something was deleted; and when nothing was deleted and
\* nothing failed otherwise it raises FileNotFoundError.
C16_RmResultPolicy ==
    rm_result.stage /= "pending" =>
        LET groupError == IF rm_pc = "raised" THEN "tally" ELSE "HttpError"
            hard == IF rm_pc /= "done" THEN <<groupError>>
                    ELSE SelectSeq(rm_out, LAMBDA ex :
                             DOMAIN ex = {"OSError"} /\ ex.OSError[2] /= 404)
            deleted == IF rm_pc /= "done" THEN <<>>
                       ELSE SelectSeq(rm_out, LAMBDA ex : DOMAIN ex /= {"OSError"})
        IN  /\ hard /= <<>> =>
                   /\ rm_result.stage = "raised"
                   /\ IF rm_pc = "done"
                      THEN /\ rm_result.exc = "OSError"
                           /\ rm_result.item /= 0
                           /\ rm_out[rm_result.item] = hard[1]
                      ELSE rm_result.exc = groupError
            /\ (hard = <<>> /\ deleted /= <<>>) =>
                   (rm_result.stage = "returned" /\ rm_result.out = deleted)
            /\ (hard = <<>> /\ deleted = <<>>) =>
                   (rm_result.stage = "raised" /\ rm_result.exc = FileNotFoundError)

(***************************************************************************)
(* _rm over several groups of files                                        *)
(***************************************************************************)
\* Bound: the number of groups of batchsize files.
MaxGroups == 3

\* How a group's _rm_files ends: it returns a list with a deleted path, with
\* a "No such object" error, or with another error; or it raises the
\* HttpError of its batch request.
GroupOutcomes == {"deleted", "gone", "error", "HttpError"}

NoFanResult == [stage |-> "pending", exc |-> None]

InitFan ==
    /\ fo_groups \in UNION {[1..n -> {[pc |-> "running", out |-> None]}] : n \in 1..MaxGroups}
    /\ fo_result = NoFanResult

IdleFan ==
    /\ fo_groups = <<>>
    /\ fo_result = NoFanResult

\* One group's _rm_files returns or raises.
GroupEnds ==
    /\ \E g \in DOMAIN fo_groups, outcome \in GroupOutcomes :
           /\ fo_groups[g].pc = "running"
           /\ fo_groups' = [fo_groups EXCEPT ![g] =
                               [pc |-> IF outcome = "HttpError" THEN "raised" ELSE "returned",
                                out |-> outcome]]
    /\ UNCHANGED fo_result
    /\ UNCHANGED foOthers

\* _run_coros_in_chunks(coros, return_exceptions) hands back its results:
\* with return_exceptions once every coroutine has ended, an exception
\* standing in the list for the result of the coroutine that raised it;
\* without, also as soon as one has raised.
Gathered(groups, return_exceptions) ==
    \/ \A g \in DOMAIN groups : groups[g].pc /= "running"
    \/ ~ return_exceptions /\ \E g \in DOMAIN groups : groups[g].pc = "raised"

\* _rm once the groups are gathered: sum(results, []), then the result
\* policy over the flattened list.
RmGather ==
    /\ fo_result = NoFanResult
    /\ Gathered(fo_groups, TRUE)
    /\ fo_result' =
         IF \E g \in DOMAIN fo_groups : fo_groups[g].pc = "raised"
         THEN \* sum(): a list and an exception do not add up
              [stage |-> "raised", exc |-> TypeError]
         ELSE IF \E g \in DOMAIN fo_groups : fo_groups[g].out = "error"
         THEN [stage |-> "raised", exc |-> "OSError"]
         ELSE IF \A g \in DOMAIN fo_groups : fo_groups[g].out = "gone"
         THEN [stage |-> "raised", exc |-> FileNotFoundError]
         ELSE [stage |-> "returned", exc |-> None]
    /\ UNCHANGED fo_groups
    /\ UNCHANGED foOthers

\* C25: bulk delete fan-out.  When one of the groups that _rm runs together
\* fails, the other groups still run to their end, and the failure reaches
\* the caller only after every group has ended, as the error of the group
\* that failed.
C25_FanOut ==
    fo_result.stage /= "pending" =>
        /\ \A g \in DOMAIN fo_groups : fo_groups[g].pc /= "running"
        /\ (\E g \in DOMAIN fo_groups : fo_groups[g].pc = "raised") =>
               (fo_result.stage = "raised" /\ fo_result.exc = "HttpError")

(***************************************************************************)
(* The transport session                                                   *)
(***************************************************************************)
\* Bounds: the request tasks that run concurrently on one filesystem, and
\* the requests each of them makes one after the other.
MaxTasks == 3
MaxRequests == 2

\* A get_client that gives up control before it returns its session.
GetClientSuspends_yes == TRUE

\* Whether `await get_client(**self.session_kwargs)` gives up control to the
\* other tasks: fsspec's get_client only constructs the aiohttp session and
\* returns it, so the await completes without a suspension.
GetClientSuspends == FALSE

InitSession ==
    /\ ss_session = 0
    /\ ss_created = 0
    /\ ss_finalizers = 0
    /\ ss_pc = [t \in 1..MaxTasks |-> "idle"]
    /\ ss_made = [t \in 1..MaxTasks |-> 0]
    /\ ss_used = [t \in 1..MaxTasks |-> 0]

IdleSession ==
    /\ ss_session = 0
    /\ ss_created = 0
    /\ ss_finalizers = 0
    /\ ss_pc = <<>>
    /\ ss_made = <<>>
    /\ ss_used = <<>>

\* A task enters _request and runs _set_session up to the point where it
\* gives up control: inside get_client if that suspends (the task resumes
\* there in a later step), else in session.request, with the session chosen.
_set_session ==
    /\ \E t \in DOMAIN ss_pc :
           /\ \/ ss_pc[t] = "idle" /\ ss_made[t] < MaxRequests
              \/ ss_pc[t] = "get_client"
           /\ IF ss_pc[t] = "idle" /\ ss_session /= 0
              THEN \* the session exists
                   /\ ss_pc' = [ss_pc EXCEPT ![t] = "request"]
                   /\ ss_used' = [ss_used EXCEPT ![t] = ss_session]
                   /\ UNCHANGED <<ss_session, ss_created, ss_finalizers>>
              ELSE IF ss_pc[t] = "idle" /\ GetClientSuspends
              THEN \* self._session is None was seen; get_client is awaited
                   /\ ss_pc' = [ss_pc EXCEPT ![t] = "get_client"]
                   /\ UNCHANGED <<ss_session, ss_created, ss_finalizers, ss_used>>
              ELSE \* get_client returns: assign, register the finalizer
                   /\ ss_created' = ss_created + 1
                   /\ ss_session' = ss_created + 1
                   /\ ss_finalizers' = ss_finalizers + 1
                   /\ ss_pc' = [ss_pc EXCEPT ![t] = "request"]
                   /\ ss_used' = [ss_used EXCEPT ![t] = ss_created + 1]
    /\ UNCHANGED ss_made
    /\ UNCHANGED ssOthers

\* The response of a task's request arrives and _request returns.
_request ==
    /\ \E t \in DOMAIN ss_pc :
           /\ ss_pc[t] = "request"
           /\ ss_pc' = [ss_pc EXCEPT ![t] = "idle"]
           /\ ss_made' = [ss_made EXCEPT ![t] = @ + 1]
    /\ UNCHANGED <<ss_session, ss_created, ss_finalizers, ss_used>>
    /\ UNCHANGED ssOthers

\* C26: lazy initialisation of the session.  However the concurrent requests
\* of one filesystem interleave, at most one session is created and one
\* finalizer registered, and every request goes through that session.
C26_OneSession ==
    /\ ss_created <= 1
    /\ ss_finalizers = ss_created
    /\ \A t \in DOMAIN ss_pc :
           /\ ss_pc[t] = "request" => ss_used[t] /= 0
           /\ ss_used[t] /= 0 => (ss_used[t] = 1 /\ ss_session = 1)

\* every task has a request in flight at once, one of them not its first
C26_Witness ==
    /\ ss_created = 1
    /\ \A t \in DOMAIN ss_pc : ss_pc[t] = "request" /\ ss_used[t] = 1
    /\ \E t \in DOMAIN ss_pc : ss_made[t] >= 1
    /\ ss_pc /= <<>>

(***************************************************************************)
(* Byte strings of uploads.  A payload is up to hundreds of MiB long, so a *)
(* byte string is kept as the sequence of the runs <<lo, hi>> of payload   *)
(* positions lo..hi-1 it is made of: byte i of the payload is identified   *)
(* with its position i.  Adjacent runs that continue each other are        *)
(* merged, so equal byte strings have equal representations.               *)
(***************************************************************************)
GCS_MIN_BLOCK_SIZE == 262144
GCS_MAX_BLOCK_SIZE == 268435456
DEFAULT_BLOCK_SIZE == 5242880

Run(lo, hi) == IF hi > lo THEN <<(<<lo, hi>>)>> ELSE <<>>

RECURSIVE BLen(_)
\* len(b)
BLen(b) == IF b = <<>> THEN 0 ELSE (b[1][2] - b[1][1]) + BLen(Tail(b))

\* a + b
BCat(a, b) ==
    IF a = <<>> THEN b
    ELSE IF b = <<>> THEN a
    ELSE IF a[Len(a)][2] = b[1][1]
    THEN SubSeq(a, 1, Len(a) - 1) \o <<(<<a[Len(a)][1], b[1][2]>>)>> \o Tail(b)
    ELSE a \o b

RECURSIVE BSlice(_, _, _)
\* b[i:j] for 0 <= i
BSlice(b, i, j) ==
    IF b = <<>> \/ j <= i THEN <<>>
    ELSE LET n == b[1][2] - b[1][1]
         IN  IF i >= n THEN BSlice(Tail(b), i - n, j - n)
             ELSE BCat(Run(b[1][1] + i, b[1][1] + Min(j, n)),
                       BSlice(Tail(b), 0, j - n))

\* b[:-s] for s > 0
BHead(b, s) == BSlice(b, 0, Max(BLen(b) - s, 0))

\* b[-s:]: the last s bytes for s > 0, all of b for s = 0 (b[-0:] is b[0:]),
\* b without its first -s bytes for s < 0
BTail(b, s) ==
    IF s > 0 THEN BSlice(b, Max(BLen(b) - s, 0), BLen(b))
    ELSE BSlice(b, -s, BLen(b))

(***************************************************************************)
(* The store's side of a resumable upload session                          *)
(***************************************************************************)
\* Bound: the number of chunks one session persists only in part.
MaxShortfalls == 2

\* How many bytes of a chunk of l bytes the store may persist: all of them,
\* or, while it has persisted fewer than MaxShortfalls chunks in part, one
\* less, the chunk cut down to a multiple of 2^18, one minimum block, or none.
AcceptChoices(l, shorts) ==
    {l}
    \cup (IF shorts < MaxShortfalls /\ l > 0 THEN {0} ELSE {})
    \cup (IF shorts < MaxShortfalls /\ l > 1 THEN {l - 1} ELSE {})
    \cup (IF shorts < MaxShortfalls /\ l > GCS_MIN_BLOCK_SIZE
          THEN {GCS_MIN_BLOCK_SIZE, (l \div GCS_MIN_BLOCK_SIZE) * GCS_MIN_BLOCK_SIZE}
          ELSE {})

\* The JSON object resource the store returns for the finalised object: its
\* size and its digests (a digest is modelled by the content it digests).
ObjectJson(content) == [size |-> BLen(content), digest |-> content]

\* The JSON a completed upload is answered with: the resource of the bytes
\* sent or, when the transfer is corrupted on its way, the resource of other
\* bytes (other length, other digests).
StoreJson(content, corrupt) ==
    IF corrupt THEN ObjectJson(BCat(content, Run(-1, 0))) ELSE ObjectJson(content)

\* The response to a chunk request "bytes start-.../total" (total NoneInt
\* for "*") with `body`, of which the store persists k bytes.  A request
\* that does not start where the persisted bytes end is refused.
ChunkResponse(received, start, total, body, k) ==
    IF body /= <<>> /\ start /= BLen(received)
    THEN [error |-> TRUE, received |-> received, done |-> FALSE,
          hasRange |-> FALSE, rangeEnd |-> NoneInt, json |-> ObjectJson(<<>>)]
    ELSE LET rec == BCat(received, BSlice(body, 0, k))
             done == total /= NoneInt /\ BLen(rec) = total
         IN  [error |-> FALSE, received |-> rec, done |-> done,
              hasRange |-> ~ done /\ BLen(rec) > 0,
              rangeEnd |-> BLen(rec) - 1,
              json |-> ObjectJson(rec)]

\* The store with the object at `path` created or replaced.
Put(objects, path, content) ==
    [q \in (DOMAIN objects) \cup {path} |->
        IF q = path THEN [content |-> content, encoding |-> "absent"]
        ELSE objects[q]]

IdleStore == store = <<>>

InitServer ==
    /\ sv_received = <<>>
    /\ sv_done = FALSE
    /\ sv_sessions = 0
    /\ sv_multipart = 0
    /\ sv_deleted = 0
    /\ sv_stalled = FALSE
    /\ sv_shorts = 0
    /\ sv_corrupt \in BOOLEAN

(***************************************************************************)
(* The consistency checker (gcsfs/checkers.py)                             *)
(***************************************************************************)
ConsistencyModes == {"none", "size", "md5", "crc32c"}

\* checker.update(data)
CheckerUpdate(absorbed, data) == BCat(absorbed, data)

\* A validation that does not pass raises out of the upload
Raises_never(v) == FALSE
Raises(v) == v /= "ok"

\* checker.validate_json_response(j): "ok", or "mismatch" when it raises
CheckerValidate(mode, absorbed, j) ==
    IF mode = "size" THEN (IF j.size = BLen(absorbed) THEN "ok" ELSE "mismatch")
    ELSE IF mode \in {"md5", "crc32c"}
    THEN (IF j.digest = absorbed THEN "ok" ELSE "mismatch")
    ELSE "ok"

(***************************************************************************)
(* Write engine: the write handle (GCSFile, mode "wb")                     *)
(***************************************************************************)
\* Bound: the number of write() calls on one handle.
MaxWrites == 2

\* The sizes of one write() call.
WriteSizes == {1, GCS_MIN_BLOCK_SIZE, DEFAULT_BLOCK_SIZE - 1, DEFAULT_BLOCK_SIZE,
               300 * 1048576}

\* The path of the handle, and the listings that may be cached when it opens.
H_path == <<"b", "/", "c">>
H_caches == {<<>>, [d \in {P_b} |-> <<FileRecord(H_path, 1, "absent")>>]}

NoRequest == [start |-> 0, total |-> NoneInt, body |-> <<>>, empty |-> FALSE,
              prevShort |-> FALSE, prevEnd |-> NoneInt]

InitHandle ==
    /\ wh_buffer = <<>>
    /\ wh_offset = NoneInt
    /\ wh_location = None
    /\ wh_loc = 0
    /\ wh_autocommit \in BOOLEAN
    /\ wh_forced = FALSE
    /\ wh_closed = FALSE
    /\ wh_consistency \in ConsistencyModes
    /\ wh_checker = <<>>
    /\ wh_validated = "no"
    /\ wh_pc = "idle"
    /\ wh_final = FALSE
    /\ wh_caller = "none"
    /\ wh_writes = 0
    /\ wh_req = NoRequest
    /\ wh_short = FALSE
    /\ wh_discarded = FALSE

IdleHandle ==
    /\ wh_buffer = <<>>
    /\ wh_offset = NoneInt
    /\ wh_location = None
    /\ wh_loc = 0
    /\ wh_autocommit = TRUE
    /\ wh_forced = FALSE
    /\ wh_closed = TRUE
    /\ wh_consistency = "none"
    /\ wh_checker = <<>>
    /\ wh_validated = "no"
    /\ wh_pc = "unused"
    /\ wh_final = FALSE
    /\ wh_caller = "none"
    /\ wh_writes = 0
    /\ wh_req = NoRequest
    /\ wh_short = FALSE
    /\ wh_discarded = FALSE

\* AbstractBufferedFile.flush from its test of self.offset on: the first
\* flush initiates the upload, every flush then runs _upload_chunk(final).
EnterFlush(final, caller) ==
    /\ wh_final' = final
    /\ wh_caller' = caller
    /\ IF wh_offset = NoneInt
       THEN wh_offset' = 0 /\ wh_pc' = "initiate"
       ELSE wh_pc' = "chunk" /\ UNCHANGED wh_offset

\* write(data) with len(data) = n: the buffer grows; a buffer of at least
\* blocksize bytes is flushed.
Write ==
    /\ wh_pc = "idle"
    /\ ~ wh_closed
    /\ ~ wh_forced
    /\ wh_writes < MaxWrites
    /\ \E n \in WriteSizes :
        /\ wh_buffer' = BCat(wh_buffer, Run(wh_loc, wh_loc + n))
        /\ wh_loc' = wh_loc + n
        /\ IF BLen(wh_buffer) + n >= DEFAULT_BLOCK_SIZE
           THEN EnterFlush(FALSE, "write")
           ELSE UNCHANGED <<wh_final, wh_caller, wh_offset, wh_pc>>
    /\ wh_writes' = wh_writes + 1
    /\ UNCHANGED <<wh_location, wh_autocommit, wh_forced, wh_closed, wh_consistency,
                   wh_checker, wh_validated, wh_req, wh_short, dircache, store>>
    /\ UNCHANGED svVars
    /\ UNCHANGED wh_discarded
    /\ UNCHANGED whOthers

\* close(): flush(force=True) unless already forced, then the invalidations.
Close ==
    /\ wh_pc = "idle"
    /\ ~ wh_closed
    /\ ~ wh_forced
    /\ wh_forced' = TRUE
    /\ EnterFlush(TRUE, "close")
    /\ UNCHANGED <<wh_buffer, wh_location, wh_loc, wh_autocommit, wh_closed,
                   wh_consistency, wh_checker, wh_validated, wh_writes, wh_req,
                   wh_short, dircache, store>>
    /\ UNCHANGED svVars
    /\ UNCHANGED wh_discarded
    /\ UNCHANGED whOthers

\* commit(), called on a closed handle that was opened with autocommit off
commit ==
    /\ wh_pc = "idle"
    /\ wh_closed
    /\ ~ wh_autocommit
    /\ wh_location /= None
    /\ ~ sv_done
    /\ wh_autocommit' = TRUE
    /\ wh_final' = TRUE
    /\ wh_caller' = "commit"
    /\ wh_pc' = "chunk"
    /\ UNCHANGED <<wh_buffer, wh_offset, wh_location, wh_loc, wh_forced, wh_closed,
                   wh_consistency, wh_checker, wh_validated, wh_writes, wh_req,
                   wh_short, dircache, store>>
    /\ UNCHANGED svVars
    /\ UNCHANGED wh_discarded
    /\ UNCHANGED whOthers

\* _initiate_upload: the POST that creates the resumable session
_initiate_upload ==
    /\ wh_pc = "initiate"
    /\ wh_location' = "session"
    /\ sv_sessions' = sv_sessions + 1
    /\ wh_pc' = "chunk"
    /\ UNCHANGED <<wh_buffer, wh_offset, wh_loc, wh_autocommit, wh_forced, wh_closed,
                   wh_consistency, wh_checker, wh_validated, wh_final, wh_caller,
                   wh_writes, wh_req, wh_short, dircache, store>>
    /\ UNCHANGED <<sv_received, sv_done, sv_multipart, sv_deleted, sv_stalled,
                   sv_shorts, sv_corrupt>>
    /\ UNCHANGED wh_discarded
    /\ UNCHANGED whOthers

\* What follows the return of _upload_chunk in its caller: flush has nothing
\* left to clear (the buffer was replaced, or _upload_chunk returned False);
\* close then invalidates the path and its parent and marks the handle closed.
ReturnToCaller ==
    /\ wh_pc' = "idle"
    /\ IF wh_caller = "close"
       THEN /\ dircache' = invalidate_cache(invalidate_cache(dircache, H_path),
                                             _parent(H_path))
            /\ wh_closed' = TRUE
       ELSE UNCHANGED <<dircache, wh_closed>>

\* _upload_chunk returns False without a request: less than one minimum block
\* is buffered and this is not the committing call.
TooSmall == BLen(wh_buffer) < GCS_MIN_BLOCK_SIZE /\ (~ wh_final \/ ~ wh_autocommit)

UploadChunkSkip ==
    /\ wh_pc = "chunk"
    /\ TooSmall
    /\ ReturnToCaller
    /\ UNCHANGED <<wh_buffer, wh_offset, wh_location, wh_loc, wh_autocommit, wh_forced,
                   wh_consistency, wh_checker, wh_validated, wh_final, wh_caller,
                   wh_writes, wh_req, wh_short, store>>
    /\ UNCHANGED svVars
    /\ UNCHANGED wh_discarded
    /\ UNCHANGED whOthers

\* An offset that moves by the whole buffer whatever was acknowledged.
OffsetAfterShortfall_whole(offset, l, shortfall) == offset + l

\* The offset _upload_chunk moves to after an acknowledgement that falls
\* short by `shortfall` of the l bytes buffered.
OffsetAfterShortfall(offset, l, shortfall) == offset + l - shortfall

\* One iteration of the loop of _upload_chunk: the request for the biggest
\* chunk, the store's answer, and the bookkeeping.
UploadChunkStep ==
    /\ wh_pc = "chunk"
    /\ ~ TooSmall
    /\ LET data == wh_buffer
           l == BLen(data)
           chunk_length == Min(l, GCS_MAX_BLOCK_SIZE)
           chunk == BSlice(data, 0, chunk_length)
           last == wh_final /\ wh_autocommit /\ chunk_length = l
           total == IF last THEN wh_offset + l ELSE NoneInt
       IN  \E k \in AcceptChoices(chunk_length, sv_shorts) :
           LET r == ChunkResponse(sv_received, wh_offset, total, chunk, k)
               shortfall == (wh_offset + l - 1) - r.rangeEnd
           IN  /\ wh_req' = [start |-> wh_offset, total |-> total, body |-> chunk,
                              empty |-> (last /\ l = 0),
                              prevShort |-> (wh_req /= NoRequest /\ wh_req.body /= <<>>
                                             /\ BLen(sv_received)
                                                  < wh_req.start + BLen(wh_req.body)),
                              prevEnd |-> BLen(sv_received) - 1]
               /\ sv_received' = r.received
               /\ sv_done' = r.done
               /\ store' = (IF r.done THEN Put(store, H_path, r.received) ELSE store)
               /\ sv_stalled' = (sv_stalled \/ (chunk_length > 0 /\ k = 0))
               /\ sv_shorts' = (IF k < chunk_length THEN sv_shorts + 1 ELSE sv_shorts)
               /\ UNCHANGED <<sv_sessions, sv_multipart, sv_deleted, sv_corrupt>>
               /\ IF r.error
                  THEN /\ wh_pc' = "failed"
                       /\ UNCHANGED <<wh_buffer, wh_offset, wh_checker, wh_validated,
                                      wh_short, wh_closed, dircache>>
                  ELSE IF r.hasRange /\ shortfall > 0
                  THEN \* the acknowledged range falls short: keep the tail
                       /\ wh_checker' = CheckerUpdate(wh_checker, BHead(data, shortfall))
                       /\ wh_buffer' = BTail(data, shortfall)
                       /\ wh_offset' = OffsetAfterShortfall(wh_offset, l, shortfall)
                       /\ wh_short' = TRUE
                       /\ wh_pc' = "chunk"
                       /\ UNCHANGED <<wh_validated, wh_closed, dircache>>
                  ELSE IF r.hasRange
                  THEN IF last /\ l = 0
                       THEN \* checker.update(None)
                            /\ wh_pc' = "failed"
                            /\ UNCHANGED <<wh_buffer, wh_offset, wh_checker,
                                           wh_validated, wh_short, wh_closed, dircache>>
                       ELSE /\ wh_checker' = CheckerUpdate(wh_checker, data)
                            /\ wh_buffer' = <<>>
                            /\ wh_offset' = wh_offset + l
                            /\ ReturnToCaller
                            /\ UNCHANGED <<wh_validated, wh_short>>
                  ELSE IF ~ wh_final \/ (l > 0 /\ ~ r.done)
                  THEN \* assert final fails, or the body is not JSON
                       /\ wh_pc' = "failed"
                       /\ UNCHANGED <<wh_buffer, wh_offset, wh_checker, wh_validated,
                                      wh_short, wh_closed, dircache>>
                  ELSE IF l > 0
                          /\ Raises(CheckerValidate(wh_consistency,
                                        CheckerUpdate(wh_checker, data),
                                        StoreJson(r.received, sv_corrupt)))
                  THEN /\ wh_checker' = CheckerUpdate(wh_checker, data)
                       /\ wh_validated' = "mismatch"
                       /\ wh_pc' = "failed"
                       /\ UNCHANGED <<wh_buffer, wh_offset, wh_short, wh_closed, dircache>>
                  ELSE /\ wh_checker' = (IF l > 0 THEN CheckerUpdate(wh_checker, data)
                                          ELSE wh_checker)
                       /\ wh_validated' =
                            (IF l > 0
                             THEN CheckerValidate(wh_consistency,
                                      CheckerUpdate(wh_checker, data),
                                      StoreJson(r.received, sv_corrupt))
                             ELSE wh_validated)
                       /\ wh_buffer' = <<>>
                       /\ wh_offset' = wh_offset + l
                       /\ ReturnToCaller
                       /\ UNCHANGED wh_short
    /\ UNCHANGED <<wh_location, wh_loc, wh_autocommit, wh_forced, wh_consistency,
                   wh_final, wh_caller, wh_writes>>
    /\ UNCHANGED wh_discarded
    /\ UNCHANGED whOthers

\* discard() returns at once when the handle has no session location
SessionLive_always(location) == TRUE

SessionLive(location) == location # None

\* self.closed = True at the end of discard()
ClosedAfterDiscard_kept(closed) == closed
ClosedAfterDiscard(closed) == TRUE

\* discard(): a no-op without a session, else the DELETE of the session
discard ==
    /\ wh_pc = "idle"
    /\ IF ~SessionLive(wh_location)
       THEN UNCHANGED <<wh_location, wh_closed, sv_deleted>>
       ELSE /\ sv_deleted' = sv_deleted + 1
            /\ wh_location' = None
            /\ wh_closed' = ClosedAfterDiscard(wh_closed)
    /\ UNCHANGED <<wh_buffer, wh_offset, wh_loc, wh_autocommit, wh_forced,
                   wh_consistency, wh_checker, wh_validated, wh_pc, wh_final,
                   wh_caller, wh_writes, wh_req, wh_short, dircache, store>>
    /\ UNCHANGED <<sv_received, sv_done, sv_sessions, sv_multipart, sv_stalled,
                   sv_shorts, sv_corrupt>>
    /\ wh_discarded' = TRUE
    /\ UNCHANGED whOthers

\* The handle has been closed by close() with nothing left to do: the upload
\* was committing (autocommit, or commit() has run) and was not discarded.
WriteFinished ==
    /\ wh_pc = "idle"
    /\ wh_closed
    /\ wh_forced
    /\ wh_autocommit
    /\ sv_deleted = 0

\* C1: shortfall convergence.  When the store acknowledged fewer bytes than
\* were sent on some chunk, but never nothing of a non-empty chunk, the
\* upload does not fail, and once the handle is closed the object is
\* committed and the consistency checker has absorbed and validated exactly
\* the full payload.
C1_ShortfallConverges ==
    (wh_short /\ ~ sv_stalled) =>
        /\ wh_pc /= "failed"
        /\ WriteFinished =>
               /\ sv_done
               /\ wh_checker = Run(0, wh_loc)
               /\ wh_validated = "ok"

\* C10 (write handle): a payload shorter than 5 MiB is sent as one
\* single-shot multipart request without a resumable session; a payload of
\* 5 MiB or more goes through a resumable session.
C10_ModeByLength ==
    (WriteFinished /\ sv_done) =>
        IF wh_loc < DEFAULT_BLOCK_SIZE
        THEN sv_sessions = 0 /\ sv_multipart = 1
        ELSE sv_sessions = 1 /\ sv_multipart = 0

\* A handle that absorbs the chunk into the checker before it sends it.
CheckerAtCall_eager(checker, chunk) == CheckerUpdate(checker, chunk)

\* The checker's state while the chunk request is out: _upload_chunk calls
\* checker.update only once the response is in.
CheckerAtCall(checker, chunk) == checker

\* The chunk request of _upload_chunk raises: it timed out, or its retries
\* were used up.  The store has persisted nothing of the chunk or, the chunk
\* not being the last, all of it.  The exception leaves _upload_chunk and
\* flush() and reaches the caller.
UploadChunkFails ==
    /\ wh_pc = "chunk"
    /\ ~ TooSmall
    /\ LET data == wh_buffer
           l == BLen(data)
           chunk_length == Min(l, GCS_MAX_BLOCK_SIZE)
           chunk == BSlice(data, 0, chunk_length)
           last == wh_final /\ wh_autocommit /\ chunk_length = l
       IN  /\ wh_req' = [start |-> wh_offset,
                          total |-> IF last THEN wh_offset + l ELSE NoneInt,
                          body |-> chunk, empty |-> (last /\ l = 0),
                          prevShort |-> FALSE, prevEnd |-> BLen(sv_received) - 1]
           /\ wh_checker' = CheckerAtCall(wh_checker, chunk)
           /\ \E k \in {0} \cup (IF last \/ wh_offset /= BLen(sv_received) THEN {}
                                  ELSE {chunk_length}) :
                  sv_received' = BCat(sv_received, BSlice(chunk, 0, k))
    /\ wh_pc' = "raised"
    /\ UNCHANGED <<wh_buffer, wh_offset, wh_location, wh_loc, wh_autocommit, wh_forced,
                   wh_closed, wh_consistency, wh_validated, wh_final, wh_caller,
                   wh_writes, wh_short, dircache, store>>
    /\ UNCHANGED <<sv_done, sv_sessions, sv_multipart, sv_deleted, sv_stalled, sv_shorts,
                   sv_corrupt>>
    /\ UNCHANGED wh_discarded
    /\ UNCHANGED whOthers

\* flush() called again after the exception: with a block or more buffered
\* it runs _upload_chunk(final=False) once more.
FlushAgain ==
    /\ wh_pc = "raised"
    /\ ~ wh_closed
    /\ BLen(wh_buffer) >= DEFAULT_BLOCK_SIZE
    /\ EnterFlush(FALSE, "flush")
    /\ UNCHANGED <<wh_buffer, wh_location, wh_loc, wh_autocommit, wh_forced, wh_closed,
                   wh_consistency, wh_checker, wh_validated, wh_writes, wh_req,
                   wh_short, dircache, store>>
    /\ UNCHANGED svVars
    /\ UNCHANGED wh_discarded
    /\ UNCHANGED whOthers

\* C27: a chunk request that raises (a timeout, an error status) leaves the
\* upload session as it was: location, offset, buffer and checker are the
\* same after the failed step as before it, and the flush that follows sends
\* its request from that same state.
C27_FailedChunkKeepsSession ==
    [][ ((/\ wh_pc = "chunk"
          /\ wh_pc' \in {"raised", "failed"}
          /\ wh_validated' /= "mismatch")
         \/ wh_pc = "raised") =>
             /\ wh_location' = wh_location
             /\ wh_offset' = wh_offset
             /\ wh_buffer' = wh_buffer
             /\ wh_checker' = wh_checker ]_<<svVars, whVars>>

\* the request for a later chunk of a session has raised: the handle holds
\* the location, the offset reached, the unsent bytes and the checker of the
\* bytes sent so far
C27_Witness ==
    /\ wh_pc = "raised"
    /\ wh_location /= None
    /\ wh_offset > 0
    /\ wh_req.start = wh_offset
    /\ wh_req.body = wh_buffer
    /\ BLen(wh_buffer) >= DEFAULT_BLOCK_SIZE
    /\ wh_checker = Run(0, wh_offset)

\* C20: upload bookkeeping of a write handle.  Whenever the handle is not
\* stopped by a validation failure, and the store acknowledges ends between
\* offset-1 and offset+len-1 only, the checker has absorbed exactly the first
\* `offset` bytes of the payload, all of them persisted by the store, and the
\* buffer holds exactly the bytes from `offset` to the total written so far.
C20_UploadBookkeeping ==
    (wh_pc /= "unused" /\ wh_validated /= "mismatch") =>
        LET offset == IF wh_offset = NoneInt THEN 0 ELSE wh_offset
        IN  /\ wh_checker = Run(0, offset)
            /\ wh_buffer = Run(offset, wh_loc)
            /\ offset <= BLen(sv_received)
            /\ sv_received = Run(0, BLen(sv_received))

\* a partly acknowledged chunk: the checker holds the accepted prefix and the
\* buffer the tail, which is about to be sent again
C20_Witness ==
    /\ wh_pc = "chunk"
    /\ wh_short
    /\ wh_offset > 0
    /\ wh_offset = BLen(sv_received)
    /\ wh_checker = Run(0, wh_offset)
    /\ wh_buffer = Run(wh_offset, wh_loc)
    /\ wh_offset < wh_loc

\* commit() on a closed handle that has no session location (none was
\* created, or discard() has cleared it): autocommit is set, and
\* _upload_chunk(final=True) gets to its request, whose path None makes
\* _format_path raise before anything is sent.
CommitWithoutSession ==
    /\ wh_pc = "idle"
    /\ wh_closed
    /\ ~ wh_autocommit
    /\ wh_location = None
    /\ wh_autocommit' = TRUE
    /\ wh_final' = TRUE
    /\ wh_caller' = "commit"
    /\ wh_pc' = "failed"
    /\ UNCHANGED <<wh_buffer, wh_offset, wh_location, wh_loc, wh_forced, wh_closed,
                   wh_consistency, wh_checker, wh_validated, wh_writes, wh_req,
                   wh_short, wh_discarded, dircache, store>>
    /\ UNCHANGED svVars
    /\ UNCHANGED whOthers

\* C35: after discard() returns the handle is closed, whether or not a
\* resumable session existed, and no later step on the handle uploads
\* anything: no session is created, no byte is sent and the store does not
\* change.
C35_DiscardCloses ==
    [][ /\ wh_discarded' => wh_closed'
        /\ wh_discarded => /\ sv_sessions' = sv_sessions
                           /\ sv_received' = sv_received
                           /\ sv_multipart' = sv_multipart
                           /\ store' = store ]_<<svVars, whVars, store>>

\* C35 for a handle that had a resumable session when discard() was called
\* (the DELETE of the session was issued): the handle is closed, and no later
\* step creates a session, sends a byte or changes the store.
C35_DiscardOfSessionCloses ==
    [][ /\ sv_deleted' >= 1 => wh_closed'
        /\ sv_deleted >= 1 => /\ sv_sessions' = sv_sessions
                              /\ sv_received' = sv_received
                              /\ sv_multipart' = sv_multipart
                              /\ store' = store ]_<<svVars, whVars, store>>

\* A handle with unsent bytes whose session was discarded and on which
\* commit() was then called
C35_Witness ==
    /\ sv_deleted = 1
    /\ wh_discarded
    /\ wh_closed
    /\ wh_buffer /= <<>>
    /\ wh_caller = "commit"
    /\ wh_pc = "failed"

\* C12: discard is idempotent.  A DELETE is only ever issued from a state with
\* a live session location, it is exactly one request and it clears the
\* location; from a state without a session no step issues a DELETE; and once
\* a DELETE has been issued no later step issues another one, so repeated
\* discard() calls cost at most one DELETE in total.
C12_DiscardIdempotent ==
    [][ /\ (sv_deleted' # sv_deleted) =>
              /\ wh_location # None
              /\ sv_deleted' = sv_deleted + 1
              /\ wh_location' = None
        /\ (wh_location = None /\ wh_pc = "idle" /\ wh_pc' = "idle") =>
              (sv_deleted' = sv_deleted /\ wh_location' = None)
        /\ (sv_deleted >= 1) => (sv_deleted' = sv_deleted)
        /\ sv_deleted' <= 1 ]_<<svVars, whVars>>

\* a session was created and discard() has deleted it
C12_Witness ==
    /\ sv_deleted = 1
    /\ sv_sessions >= 1
    /\ wh_location = None
    /\ wh_closed

\* C11: commit is always validated.  Whenever the final chunk step of a
\* resumable upload has completed the object (final=true, nothing left to
\* send, the empty final request 'bytes */total' included), the consistency
\* checker has validated the completion response.
C11_CommitValidated ==
    (sv_done /\ wh_pc = "idle") => wh_validated = "ok"

(***************************************************************************)
(* Write engine: _pipe_file, _put_file and the function upload_chunk       *)
(***************************************************************************)
\* len(data) below which _pipe_file and _put_file upload in one request
SimpleUploadLimit == 5242880

\* chunksize of _pipe_file and _put_file
PipeChunkSize == 52428800

\* The sizes of the payloads.
PipeSizes == {0, 1, SimpleUploadLimit - 1, SimpleUploadLimit, SimpleUploadLimit + 1,
              PipeChunkSize + GCS_MIN_BLOCK_SIZE + 1}

\* `out` of _pipe_file / _put_file: None, or the parsed JSON of a response
OutNone == [isNone |-> TRUE, json |-> ObjectJson(<<>>)]

\* The outcome of reading the path back: not tried, a handle open for
\* reading with the size info() reported, the data read, or the exception.
NoResult == [stage |-> "unset", size |-> 0, data |-> <<>>]

InitPipe ==
    /\ pf_kind \in {"_pipe_file", "_put_file"}
    /\ pf_size \in PipeSizes
    /\ pf_consistency \in ConsistencyModes
    /\ pf_pc = "start"
    /\ pf_offset = 0
    /\ pf_bit = <<>>
    /\ pf_uoffset = 0
    /\ pf_out = OutNone
    /\ pf_checker = <<>>
    /\ pf_validated = "no"
    /\ pf_req = NoRequest
    /\ pf_short = FALSE
    /\ pf_result = NoResult

IdlePipe ==
    /\ pf_kind = "none"
    /\ pf_size = 0
    /\ pf_consistency = "none"
    /\ pf_pc = "unused"
    /\ pf_offset = 0
    /\ pf_bit = <<>>
    /\ pf_uoffset = 0
    /\ pf_out = OutNone
    /\ pf_checker = <<>>
    /\ pf_validated = "no"
    /\ pf_req = NoRequest
    /\ pf_short = FALSE
    /\ pf_result = NoResult

\* The payload `data`
PipeData == Run(0, pf_size)

\* simple_upload: one multipart request, then the validation against the
\* returned JSON; _pipe_file / _put_file then invalidate the parent.
simple_upload ==
    /\ pf_pc = "start"
    /\ pf_size < SimpleUploadLimit
    /\ sv_multipart' = sv_multipart + 1
    /\ store' = Put(store, H_path, PipeData)
    /\ pf_checker' = CheckerUpdate(<<>>, PipeData)
    /\ LET v == CheckerValidate(pf_consistency, CheckerUpdate(<<>>, PipeData),
                                StoreJson(PipeData, sv_corrupt))
       IN  /\ pf_validated' = v
           /\ IF ~ Raises(v)
              THEN /\ dircache' = invalidate_cache(dircache, _parent(H_path))
                   /\ pf_pc' = "written"
              ELSE /\ pf_pc' = "failed"
                   /\ UNCHANGED dircache
    /\ UNCHANGED <<pf_kind, pf_size, pf_consistency, pf_offset, pf_bit, pf_uoffset,
                   pf_out, pf_req, pf_short, pf_result>>
    /\ UNCHANGED <<sv_received, sv_done, sv_sessions, sv_deleted, sv_stalled, sv_shorts, sv_corrupt>>
    /\ UNCHANGED pfOthers

\* initiate_upload: the POST that creates the resumable session
initiate_upload ==
    /\ pf_pc = "start"
    /\ pf_size >= SimpleUploadLimit
    /\ sv_sessions' = sv_sessions + 1
    /\ pf_pc' = "loop"
    /\ UNCHANGED <<pf_kind, pf_size, pf_consistency, pf_offset, pf_bit, pf_uoffset,
                   pf_out, pf_checker, pf_validated, pf_req, pf_short, pf_result>>
    /\ UNCHANGED <<sv_received, sv_done, sv_multipart, sv_deleted, sv_stalled, sv_shorts, sv_corrupt>>
    /\ UNCHANGED <<dircache, store>>
    /\ UNCHANGED pfOthers

\* The chunk the loop of _pipe_file / _put_file is at
LoopBit == BSlice(PipeData, pf_offset, pf_offset + PipeChunkSize)

\* The head of the loop over the chunks: the next chunk goes to
\* upload_chunk; after the last one `out` is validated and the parent
\* invalidated.
PipeLoop ==
    /\ pf_pc = "loop"
    /\ IF pf_offset < pf_size
       THEN /\ pf_bit' = LoopBit
            /\ pf_uoffset' = pf_offset
            /\ pf_pc' = "chunk"
            /\ UNCHANGED <<pf_checker, pf_validated, dircache>>
       ELSE LET absorbed == IF pf_kind = "_pipe_file"
                            THEN CheckerUpdate(<<>>, PipeData) ELSE pf_checker
                v == IF pf_out.isNone
                     THEN (IF pf_consistency \in {"size", "md5", "crc32c"}
                           THEN TypeError ELSE "ok")
                     ELSE CheckerValidate(pf_consistency, absorbed, pf_out.json)
            IN  /\ pf_checker' = absorbed
                /\ pf_validated' = v
                /\ IF ~ Raises(v)
                   THEN /\ dircache' = invalidate_cache(dircache, _parent(H_path))
                        /\ pf_pc' = "written"
                   ELSE /\ pf_pc' = "failed"
                        /\ UNCHANGED dircache
                /\ UNCHANGED <<pf_bit, pf_uoffset>>
    /\ UNCHANGED <<pf_kind, pf_size, pf_consistency, pf_offset, pf_out, pf_req,
                   pf_short, pf_result>>
    /\ UNCHANGED svVars
    /\ UNCHANGED store
    /\ UNCHANGED pfOthers

\* The offset the function upload_chunk passes to its recursive call after
\* an acknowledgement up to byte index `end`.
ResumeOffset(end) == end

\* One call of the function upload_chunk(fs, location, data, offset, size):
\* the request, the store's answer, and either the recursive call for the
\* tail or the return into the loop.
upload_chunk ==
    /\ pf_pc = "chunk"
    /\ LET l == BLen(pf_bit)
       IN  \E k \in AcceptChoices(l, sv_shorts) :
           LET r == ChunkResponse(sv_received, pf_uoffset, pf_size, pf_bit, k)
               shortfall == (pf_uoffset + l - 1) - r.rangeEnd
           IN  /\ pf_req' = [start |-> pf_uoffset, total |-> pf_size, body |-> pf_bit,
                              empty |-> FALSE,
                              prevShort |-> (pf_req /= NoRequest
                                             /\ BLen(sv_received)
                                                  < pf_req.start + BLen(pf_req.body)),
                              prevEnd |-> BLen(sv_received) - 1]
               /\ sv_received' = r.received
               /\ sv_done' = r.done
               /\ store' = (IF r.done THEN Put(store, H_path, r.received) ELSE store)
               /\ sv_stalled' = (sv_stalled \/ (l > 0 /\ k = 0))
               /\ sv_shorts' = (IF k < l THEN sv_shorts + 1 ELSE sv_shorts)
               /\ UNCHANGED <<sv_sessions, sv_multipart, sv_deleted, sv_corrupt>>
               /\ IF r.error
                  THEN /\ pf_pc' = "failed"
                       /\ UNCHANGED <<pf_bit, pf_uoffset, pf_out, pf_offset, pf_checker,
                                      pf_short>>
                  ELSE IF r.hasRange /\ shortfall /= 0
                  THEN /\ pf_bit' = BTail(pf_bit, shortfall)
                       /\ pf_uoffset' = ResumeOffset(r.rangeEnd)
                       /\ pf_short' = TRUE
                       /\ pf_pc' = "chunk"
                       /\ UNCHANGED <<pf_out, pf_offset, pf_checker>>
                  ELSE /\ pf_out' = (IF r.done
                                      THEN [isNone |-> FALSE,
                                            json |-> StoreJson(r.received, sv_corrupt)]
                                      ELSE OutNone)
                       /\ pf_offset' = (IF pf_kind = "_pipe_file"
                                         THEN pf_offset + PipeChunkSize
                                         ELSE pf_offset + BLen(LoopBit))
                       /\ pf_checker' = (IF pf_kind = "_put_file"
                                          THEN CheckerUpdate(pf_checker, LoopBit)
                                          ELSE pf_checker)
                       /\ pf_pc' = "loop"
                       /\ UNCHANGED <<pf_bit, pf_uoffset, pf_short>>
    /\ UNCHANGED <<pf_kind, pf_size, pf_consistency, pf_validated, pf_result>>
    /\ UNCHANGED dircache
    /\ UNCHANGED pfOthers

\* A chunk request that follows an acknowledgement which fell short starts
\* at the byte after the last acknowledged one and carries no byte the store
\* already has.
ResumesAtAck(req) ==
    req.prevShort =>
        /\ req.start = req.prevEnd + 1
        /\ \A i \in DOMAIN req.body : req.body[i][1] > req.prevEnd
        /\ req.body /= <<>> => req.body[1][1] = req.prevEnd + 1

\* C2: after a chunk whose acknowledged range falls short of what was sent,
\* the next chunk request starts at the last acknowledged byte index + 1 and
\* carries exactly the unaccepted tail, for the write handle
\* (GCSFile._upload_chunk) and for the function upload_chunk of _pipe_file
\* and _put_file.
C2_ResumeAtAck == ResumesAtAck(wh_req) /\ ResumesAtAck(pf_req)

(***************************************************************************)
(* Listings: _ls, _list_objects, _list_buckets, _get_object against the    *)
(* listing cache and the store                                             *)
(***************************************************************************)
\* Bound: the number of filesystem calls of one behaviour.
MaxCalls == 3

\* The objects that may exist in bucket b (keys c, a/1, a/2, a/d/1), in the
\* order the store lists them, the prefixes the store may report, and the
\* buckets of the project.
F_c == <<"b", "/", "c">>
F_a1 == <<"b", "/", "a", "/", "1">>
F_a2 == <<"b", "/", "a", "/", "2">>
F_ad == <<"b", "/", "a", "/", "d">>
F_ad1 == <<"b", "/", "a", "/", "d", "/", "1">>
ObjectOrder == <<F_a1, F_a2, F_ad1, F_c>>
PrefixOrder == << <<"a", "/">>, <<"a", "/", "d", "/">> >>
BucketOrder == <<P_b>>

\* "/".join((bucket, key)) and posixpath.join(bucket, name)
Join(bucket, key) == bucket \o <<"/">> \o key

\* posixpath.dirname
dirname(path) == IF HasSlash(path) THEN rstrip(SubSeq(path, 1, LastSlash(path))) ELSE <<>>

\* The key of an object without the first n characters
KeyRest(path, n) == SubSeq(split_path(path).key, n + 1, Len(split_path(path).key))

\* GET b/{bucket}/o?delimiter=/&prefix=...: the objects whose key starts with
\* the prefix and has no "/" after it are `items`; the others are reported
\* once by their key up to and including the next "/" as `prefixes`.
ServerMatches(objects, bucket, prefix) ==
    {q \in DOMAIN objects :
        split_path(q).bucket = bucket /\ StartsWith(split_path(q).key, prefix)}

ServerItems(objects, bucket, prefix) ==
    SelectSeq(ObjectOrder,
              LAMBDA q : /\ q \in ServerMatches(objects, bucket, prefix)
                         /\ ~ HasSlash(KeyRest(q, Len(prefix))))

ServerPrefixes(objects, bucket, prefix) ==
    SelectSeq(PrefixOrder,
              LAMBDA d : \E q \in ServerMatches(objects, bucket, prefix) :
                  LET rest == KeyRest(q, Len(prefix))
                  IN  HasSlash(rest) /\ d = prefix \o SubSeq(rest, 1, FirstSlash(rest)))

\* _process_object applied to the object resource of `path`
_process_object(objects, path) ==
    FileRecord(Join(split_path(path).bucket, split_path(path).key),
               BLen(objects[path].content), objects[path].encoding)

\* The name _list_objects gives the pseudo-directory of a reported prefix
PseudoDirName_unstripped(bucket, prefix) == Join(bucket, prefix)
PseudoDirName(bucket, prefix) == Join(bucket, strip(prefix))

\* [f(x) for x in seq]
RECURSIVE MapPseudoDirs(_, _)
MapPseudoDirs(bucket, prefixes) ==
    IF prefixes = <<>> THEN <<>>
    ELSE <<DirRecord(PseudoDirName(bucket, prefixes[1]))>>
         \o MapPseudoDirs(bucket, Tail(prefixes))

RECURSIVE MapObjects(_, _)
MapObjects(objects, paths) ==
    IF paths = <<>> THEN <<>>
    ELSE <<_process_object(objects, paths[1])>> \o MapObjects(objects, Tail(paths))

\* AbstractFileSystem._ls_from_cache, as GCSFileSystem inherits it: the cached
\* listing of the path, else the entries of the parent's cached listing that
\* name the path (FileNotFoundError when there is none), else None.
_ls_from_cache(cache, path) ==
    IF rstrip(path) \in DOMAIN cache
    THEN [kind |-> "list", files |-> cache[rstrip(path)]]
    ELSE IF _parent(path) \in DOMAIN cache
    THEN LET files == SelectSeq(cache[_parent(path)],
                          LAMBDA f : \/ f.name = path
                                     \/ (f.name = rstrip(path) /\ f.type = "directory"))
         IN  IF files = <<>> THEN [kind |-> FileNotFoundError, files |-> <<>>]
             ELSE [kind |-> "list", files |-> files]
    ELSE [kind |-> None, files |-> <<>>]

\* The outcome of a call: the value returned (a listing), the exception
\* raised (None when none), the cache it leaves, and the store requests made.
Returned(out, cache, requests) ==
    [out |-> out, exc |-> None, cache |-> cache, requests |-> requests]
Raised(exc, cache, requests) ==
    [out |-> <<>>, exc |-> exc, cache |-> cache, requests |-> requests]

\* GCSFileSystem._get_object; the value returned is a one-record listing
_get_object(cache, objects, path) ==
    LET sp == split_path(path)
        listing == _ls_from_cache(cache, path)
        named == SelectSeq(listing.files,
                     LAMBDA f : f.type = "file" /\ f.name = Join(sp.bucket, sp.key))
    IN  IF listing.kind = FileNotFoundError THEN Raised(FileNotFoundError, cache, 0)
        ELSE IF listing.files /= <<>>
        THEN (IF named /= <<>> THEN Returned(<<named[1]>>, cache, 0)
              ELSE Raised(FileNotFoundError, cache, 0))
        ELSE IF sp.key = <<>> THEN Raised(FileNotFoundError, cache, 0)
        ELSE IF path \in DOMAIN objects
        THEN Returned(<<_process_object(objects, path)>>, cache, 1)
        ELSE Raised(FileNotFoundError, cache, 1)

\* self.dircache[path] = out, done for listings without a prefix
CacheListing_never(cache, path, out, prefix) == cache
CacheListing_always(cache, path, out, prefix) ==
    [q \in (DOMAIN cache) \cup {path} |-> IF q = path THEN out ELSE cache[q]]
CacheListing(cache, path, out, prefix) ==
    IF prefix = <<>>
    THEN [q \in (DOMAIN cache) \cup {path} |-> IF q = path THEN out ELSE cache[q]]
    ELSE cache

\* The prefix _do_list_objects sends for the key of the listed path
ListingPrefix(key, prefix) ==
    (IF key = <<>> THEN <<>> ELSE rstrip(key) \o <<"/">>) \o prefix

\* What the store's answer becomes in _list_objects: pseudodirs + items
FetchedListing(objects, bucket, prefix) ==
    MapPseudoDirs(bucket, ServerPrefixes(objects, bucket, prefix))
    \o MapObjects(objects, ServerItems(objects, bucket, prefix))

\* `if not (items + pseudodirs)`: the store listed nothing
NothingListed_never(out) == FALSE
NothingListed(out) == out = <<>>

\* _list_objects once the path is split and stripped and the cached listing
\* and the store's answer are at hand
ListObjectsWith(cache, objects, sp, path, clisting, out, prefix) ==
    LET hassubdirs == \E i \in DOMAIN clisting.files :
                          /\ rstrip(clisting.files[i].name) = path
                          /\ clisting.files[i].type = "directory"
    IN  IF clisting.kind = FileNotFoundError /\ sp.key /= <<>>
        THEN Raised(FileNotFoundError, cache, 0)
        ELSE IF clisting.files /= <<>> /\ ~ hassubdirs
        THEN Returned(clisting.files, cache, 0)
        ELSE IF NothingListed(out)
        THEN (IF sp.key /= <<>>
              THEN LET g == _get_object(cache, objects, path)
                   IN  [g EXCEPT !.requests = g.requests + 1]
              ELSE Returned(<<>>, cache, 1))
        ELSE Returned(out, CacheListing(cache, path, out, prefix), 1)

\* GCSFileSystem._list_objects(path, prefix).  (Each intermediate value is
\* bound once, as an element of a singleton.)
_list_objects(cache, objects, path0, prefix) ==
    Only({Only({ListObjectsWith(cache, objects, sp, path, clisting, out, prefix) :
                    clisting \in {_ls_from_cache(cache, path)},
                    out \in {FetchedListing(objects, sp.bucket,
                                            ListingPrefix(sp.key, prefix))}}) :
              sp \in {split_path(path0)}, path \in {rstrip(path0)}})

RECURSIVE MapBuckets(_)
MapBuckets(buckets) ==
    IF buckets = <<>> THEN <<>>
    ELSE <<DirRecord(buckets[1] \o <<"/">>)>> \o MapBuckets(Tail(buckets))

\* GCSFileSystem._list_buckets
_list_buckets(cache) ==
    IF Root \notin DOMAIN cache
    THEN Returned(MapBuckets(BucketOrder),
                  [q \in (DOMAIN cache) \cup {Root} |->
                      IF q = Root THEN MapBuckets(BucketOrder) ELSE cache[q]], 1)
    ELSE Returned(cache[Root], cache, 0)

\* GCSFileSystem._ls(path, detail=True, prefix=prefix), without refresh
_ls(cache, objects, path0, prefix) ==
    LET path == rstrip(_strip_protocol(path0))
    IN  IF path = <<>> THEN _list_buckets(cache)
        ELSE _list_objects(cache, objects, path, prefix)

RECURSIVE FindEntries(_, _, _, _, _)
\* The loop of _find over the objects found: each object is recorded under
\* its parent, each parent as a directory under its own parent, up to the
\* bucket or the query root; a name already recorded stays as it is.
\* `previous` and `parent` are those of the walk from objs[1].
FindEntries(entries, objs, previous, parent, path) ==
    IF objs = <<>> THEN entries
    ELSE IF parent = <<>> \/ split_path(parent).key = <<>> \/ Len(parent) < Len(path)
    THEN (IF Len(objs) = 1 THEN entries
          ELSE FindEntries(entries, Tail(objs), objs[2], _parent(objs[2].name), path))
    ELSE LET old == IF parent \in DOMAIN entries THEN entries[parent] ELSE <<>>
             new == IF \E i \in DOMAIN old : old[i].name = previous.name
                    THEN old ELSE Append(old, previous)
         IN  FindEntries([q \in (DOMAIN entries) \cup {parent} |->
                             IF q = parent THEN new ELSE entries[q]],
                         objs, DirRecord(parent), _parent(parent), path)

\* GCSFileSystem._find(path, detail=True, prefix=prefix), withdirs and
\* maxdepth unset: the objects under the path (or, when there is none, those
\* the path names as a file), and the cache entries of the directories
\* found, stored when there is no prefix.
_find(cache, objects, path0, prefix) ==
    LET path == _strip_protocol(path0)
        sp == split_path(path)
        asDir == SelectSeq(ObjectOrder, LAMBDA q :
                     q \in ServerMatches(objects, sp.bucket, ListingPrefix(sp.key, prefix)))
        asFile == SelectSeq(ObjectOrder, LAMBDA q :
                     q \in ServerMatches(objects, sp.bucket,
                                         IF prefix /= <<>> THEN ListingPrefix(sp.key, prefix)
                                         ELSE sp.key))
        found == MapObjects(objects, IF asDir /= <<>> THEN asDir ELSE asFile)
        entries == IF found = <<>> THEN <<>>
                   ELSE FindEntries(<<>>, found, found[1], _parent(found[1].name), path)
    IN  Returned(found,
                 IF prefix = <<>>
                 THEN [q \in (DOMAIN cache) \cup (DOMAIN entries) |->
                          IF q \in DOMAIN entries THEN entries[q] ELSE cache[q]]
                 ELSE cache,
                 IF asDir /= <<>> THEN 1 ELSE 2)

\* The paths listed, the (path, prefix) pairs of the listings, the paths
\* invalidated, and the
\* stores a behaviour may start from.
ListPaths == {Root, P_b, P_ba, P_ba \o <<"/">>, F_ad, F_c}
ListCalls == (ListPaths \X {<<>>}) \cup {<<P_ba, <<"1">>>>}
InvalidatePaths == {Root, P_b, P_ba, F_c, F_ad1}
FsObjects == {F_c, F_a1, F_a2, F_ad1}
FsStores == {[q \in S |-> [content |-> Run(0, 1), encoding |-> "absent"]] :
                S \in SUBSET FsObjects}

\* No filesystem call made yet
NoCall == [op |-> "none", path |-> <<>>, prefix |-> <<>>, out |-> <<>>,
           requests |-> 0, exc |-> None]

IdleFS ==
    /\ fs_call = NoCall /\ fs_prev = NoCall /\ fs_steps = 0 /\ fs_noncurrent = {}
    /\ fs_buckets = BucketOrder
    /\ fs_version_aware = FALSE

InitFS ==
    /\ store \in FsStores
    /\ dircache = <<>>
    /\ fs_call = NoCall
    /\ fs_prev = NoCall
    /\ fs_steps = 0
    /\ fs_noncurrent = {}
    /\ fs_buckets = BucketOrder
    /\ fs_version_aware = FALSE

Called(op, path, prefix, res) ==
    /\ fs_steps < MaxCalls
    /\ fs_steps' = fs_steps + 1
    /\ fs_prev' = fs_call
    /\ fs_call' = [op |-> op, path |-> path, prefix |-> prefix, out |-> res.out,
                   requests |-> res.requests, exc |-> res.exc]
    /\ UNCHANGED <<fs_noncurrent, fs_buckets, fs_version_aware>>

\* ls(path, detail=True, prefix=prefix)
FsLs ==
    /\ \E c \in ListCalls :
        \E res \in {_ls(dircache, store, c[1], c[2])} :
            /\ Called("ls", c[1], c[2], res)
            /\ dircache' = res.cache
    /\ UNCHANGED store
    /\ UNCHANGED fsOthers

\* find(path, detail=True, prefix=prefix)
FsFind ==
    /\ \E c \in {<<P_b, <<>>>>, <<P_ba, <<"1">>>>, <<P_b, <<"a">>>>} :
        \E res \in {_find(dircache, store, c[1], c[2])} :
            /\ Called("find", c[1], c[2], res)
            /\ dircache' = res.cache
    /\ UNCHANGED store
    /\ UNCHANGED fsOthers

\* _pipe_file(path, data) for a payload of one byte: simple_upload, then the
\* invalidation of the parent
FsPipe ==
    /\ \E path \in FsObjects :
        /\ Called("pipe", path, <<>>, Returned(<<>>, dircache, 1))
        /\ store' = Put(store, path, Run(0, 1))
        /\ dircache' = invalidate_cache(dircache, _parent(path))
    /\ UNCHANGED fsOthers

\* _rm_file(path) for a path with a key: the DELETE (404 raises
\* FileNotFoundError), then the invalidation of the directory
_rm_file ==
    /\ \E path \in FsObjects :
        IF path \in DOMAIN store
        THEN /\ Called("rm", path, <<>>, Returned(<<>>, dircache, 1))
             /\ store' = [q \in (DOMAIN store) \ {path} |-> store[q]]
             /\ dircache' = invalidate_cache(dircache, dirname(_strip_protocol(path)))
        ELSE /\ Called("rm", path, <<>>, Raised(FileNotFoundError, dircache, 1))
             /\ UNCHANGED <<store, dircache>>
    /\ UNCHANGED fsOthers

\* invalidate_cache(path)
FsInvalidate ==
    /\ \E path \in InvalidatePaths :
        /\ Called("invalidate", path, <<>>, Returned(<<>>, dircache, 0))
        /\ dircache' = invalidate_cache(dircache, path)
    /\ UNCHANGED store
    /\ UNCHANGED fsOthers

\* invalidate_cache() with path=None
FsInvalidateAll ==
    /\ Called("invalidate_all", <<>>, <<>>, Returned(<<>>, dircache, 0))
    /\ dircache' = invalidate_cache(dircache, "all")
    /\ UNCHANGED store
    /\ UNCHANGED fsOthers

RECURSIVE AncestorsOrSelf(_)
\* The path, its parent, its parent's parent, ... and the root
AncestorsOrSelf(path) ==
    IF path = <<>> THEN {Root} ELSE {path} \cup AncestorsOrSelf(_parent(path))

\* The directories the objects imply: every proper ancestor of an object
ImpliedDirs(objects) ==
    UNION {AncestorsOrSelf(_parent(q)) : q \in DOMAIN objects} \ {Root}

\* The direct children of directory D: a file record per object stored in D
\* and a directory record per implied directory in D
ChildFiles(objects, D) ==
    {FileRecord(q, BLen(objects[q].content), objects[q].encoding) :
        q \in {x \in DOMAIN objects : _parent(x) = D}}
ChildDirs(objects, D) ==
    {DirRecord(d) : d \in {x \in ImpliedDirs(objects) : _parent(x) = D}}

\* The records of the listing a call returned
Listed(call) == {call.out[i] : i \in DOMAIN call.out}

\* The last call, and the one before it, listed without a prefix
ListedPlain(call) == call.op = "ls" /\ call.prefix = <<>>

\* find(path, detail=True) without a prefix, over a bucket, a directory
\* (with or without its trailing "/") or a file
FsFindPlain ==
    /\ \E path \in {P_b, P_ba, P_ba \o <<"/">>, F_ad, F_a1, F_c} :
        \E res \in {_find(dircache, store, path, <<>>)} :
            /\ Called("find", path, <<>>, res)
            /\ dircache' = res.cache
    /\ UNCHANGED store
    /\ UNCHANGED fsOthers

\* C28: directory synthesis in find.  After a _find without prefix over a
\* query root, every directory at or below the root (and below the bucket)
\* that holds a found object, directly or deeper, has a cache entry whose
\* names are exactly the directory's direct children, objects and implied
\* subdirectories, as a delimiter listing returns them (C8); and no entry is
\* written for a directory above the root.
C28_FindSynthesis ==
    [][ (/\ fs_steps' = fs_steps + 1
         /\ fs_call'.op = "find"
         /\ fs_call'.prefix = <<>>) =>
            LET root == rstrip(_strip_protocol(fs_call'.path))
                found == {fs_call'.out[i].name : i \in DOMAIN fs_call'.out}
                levels == {d \in UNION {AncestorsOrSelf(_parent(q)) : q \in found} :
                              /\ d /= Root
                              /\ split_path(d).key /= <<>>
                              /\ (d = root \/ StartsWith(d, root \o <<"/">>))}
                children(d) == ChildFiles(store, d) \cup ChildDirs(store, d)
            IN  /\ \A d \in levels :
                       /\ d \in DOMAIN dircache'
                       /\ {dircache'[d][i].name : i \in DOMAIN dircache'[d]}
                             = {r.name : r \in children(d)}
                /\ \A d \in DOMAIN dircache' :
                       StartsWith(root, d \o <<"/">>) =>
                           (d \in DOMAIN dircache /\ dircache'[d] = dircache[d])
      ]_<<fsVars, dircache>>

\* The generations of a stored object, oldest first, as the store reports
\* them under versions=true: one item per generation, all with the object's
\* name.
Generations(noncurrent, q) ==
    IF q \in noncurrent THEN << <<"7">>, <<"7", "7">> >> ELSE << <<"7", "7">> >>

\* _process_object of an item that carries its generation
VersionRecord(rec, generation) ==
    [name |-> rec.name, type |-> rec.type, size |-> rec.size,
     contentEncoding |-> rec.contentEncoding, generation |-> generation]

RECURSIVE MapObjectVersions(_, _, _)
\* [self._process_object(bucket, i) for i in items] over a versioned answer
MapObjectVersions(objects, noncurrent, paths) ==
    IF paths = <<>> THEN <<>>
    ELSE [g \in DOMAIN Generations(noncurrent, paths[1]) |->
             VersionRecord(_process_object(objects, paths[1]),
                           Generations(noncurrent, paths[1])[g])]
         \o MapObjectVersions(objects, noncurrent, Tail(paths))

\* GCSFileSystem._list_objects(path, versions=True) without a prefix
_list_objects_versions(cache, objects, noncurrent, path0) ==
    Only({Only({ListObjectsWith(cache, objects, sp, path, clisting, out, <<>>) :
                    clisting \in {_ls_from_cache(cache, path)},
                    out \in {MapPseudoDirs(sp.bucket,
                                 ServerPrefixes(objects, sp.bucket,
                                                ListingPrefix(sp.key, <<>>)))
                             \o MapObjectVersions(objects, noncurrent,
                                    ServerItems(objects, sp.bucket,
                                                ListingPrefix(sp.key, <<>>)))}}) :
              sp \in {split_path(path0)}, path \in {rstrip(path0)}})

\* The copies _ls returns under versions=True: the name of an entry with a
\* generation becomes name#generation
NameVersions(out) ==
    [i \in DOMAIN out |->
        IF "generation" \in DOMAIN out[i]
        THEN [out[i] EXCEPT !.name = @ \o <<"#">> \o out[i].generation]
        ELSE out[i]]

\* ls(path, detail=True, versions=True) of a bucket or a directory
FsLsVersions ==
    /\ \E path \in {P_b, P_ba} :
        \E res \in {_list_objects_versions(dircache, store, fs_noncurrent,
                                           rstrip(_strip_protocol(path)))} :
            /\ Called("ls_versions", path, <<>>,
                      [res EXCEPT !.out = NameVersions(res.out)])
            /\ dircache' = res.cache
    /\ UNCHANGED store
    /\ UNCHANGED fsOthers

\* C29: every cached listing is unique by name.  After any sequence of
\* listings and finds, versioned listings included, no cache entry holds two
\* records with the same name.
C29_CacheUniqueByName ==
    \A d \in DOMAIN dircache :
        \A i, j \in DOMAIN dircache[d] :
            dircache[d][i].name = dircache[d][j].name => i = j

\* Exceptions with their text.  NoExc stands for "nothing raised"; the
\* classes that derive from OSError.
Exc(cls, msg) == [cls |-> cls, msg |-> msg]
NoExc == Exc(None, <<>>)
OSErrors == {"OSError", FileNotFoundError}

\* What a call raises on status 403: an OSError whose text starts with
\* "Forbidden".
PermissionDenied == Exc("OSError", <<"Forbidden", ":">>)

\* The failures of a store request other than "no such object": permission
\* denied, another OSError (whose text names the word later on), and an
\* HttpError, which is no OSError.
CallFailures ==
    {PermissionDenied, Exc("OSError", <<"Cannot", "connect", "Forbidden">>),
     Exc("HttpError", <<"Forbidden">>)}

\* except OSError as e: if not str(e).startswith("Forbidden"): raise
IsForbidden_anyOSError(e) == e.cls \in OSErrors
IsForbidden(e) == e.cls \in OSErrors /\ StartsWith(e.msg, <<"Forbidden">>)

\* The items of GET b/{bucket}/o?prefix=key, without delimiter: the live
\* objects whose key starts with the prefix, in name order and cut to
\* maxResults when it is given; under versions=true every generation of
\* them.
PrefixItems(objects, noncurrent, bucket, prefix, versions, maxResults) ==
    LET names == SelectSeq(ObjectOrder,
                           LAMBDA q : q \in ServerMatches(objects, bucket, prefix))
        items == IF versions THEN MapObjectVersions(objects, noncurrent, names)
                 ELSE [i \in DOMAIN names |->
                          VersionRecord(_process_object(objects, names[i]),
                                        Generations(noncurrent, names[i])
                                            [Len(Generations(noncurrent, names[i]))])]
    IN  IF maxResults /= NoneInt /\ Len(items) > maxResults
        THEN SubSeq(items, 1, maxResults) ELSE items

\* The outcome of a lookup: the record returned (as a one-record listing),
\* the exception raised, and the store requests made.
Looked(out, exc, requests) == [out |-> out, exc |-> exc, requests |-> requests]

\* GCSFileSystem._get_object past the listing cache (nothing cached for the
\* path or its parent), for a path with a key: the direct get, which raises
\* get_exc when that is an exception and else answers for the store, and the
\* listing of the fallback, which raises list_exc when that is an exception.
_get_object_direct(objects, noncurrent, sp, get_exc, list_exc) ==
    LET q == Join(sp.bucket, sp.key)
        has == /\ q \in DOMAIN objects
               /\ sp.generation /= <<>> =>
                      \E g \in DOMAIN Generations(noncurrent, q) :
                          Generations(noncurrent, q)[g] = sp.generation
        res == VersionRecord(_process_object(objects, q),
                             IF sp.generation /= <<>> THEN sp.generation
                             ELSE Generations(noncurrent, q)[Len(Generations(noncurrent, q))])
        items == PrefixItems(objects, noncurrent, sp.bucket, sp.key,
                             sp.generation /= <<>>,
                             IF sp.generation = <<>> THEN 1 ELSE NoneInt)
        match == SelectSeq(items,
                     LAMBDA item : /\ item.name = q
                                   /\ (sp.generation = <<>>
                                       \/ item.generation = sp.generation))
    IN  IF get_exc = NoExc
        THEN (IF has THEN Looked(<<res>>, NoExc, 1)
              ELSE Looked(<<>>, Exc(FileNotFoundError, q), 1))
        ELSE IF ~ IsForbidden(get_exc) THEN Looked(<<>>, get_exc, 1)
        ELSE IF list_exc /= NoExc THEN Looked(<<>>, list_exc, 2)
        ELSE IF match = <<>> THEN Looked(<<>>, Exc(FileNotFoundError, q), 2)
        ELSE Looked(<<match[1]>>, NoExc, 2)

\* The paths looked up: an object, the same with a generation in the
\* fragment, an object that may be missing, and a directory
LookupPaths == {F_c, F_c \o <<"#", "7">>, F_c \o <<"#", "7", "7">>, F_a1, P_ba}

\* _get_object(path) on an empty listing cache, for a filesystem with or
\* without version_aware; `get` and `list` are what the two store requests
\* raised (NoExc when the request was answered or not made).
FsGetObject ==
    /\ dircache = <<>>
    /\ fs_steps < MaxCalls
    /\ \E path \in LookupPaths, version_aware \in BOOLEAN,
          get_exc \in {NoExc} \cup CallFailures,
          list_exc \in {NoExc, Exc("HttpError", <<"Internal">>)} :
        \E sp \in {_split_path(path, version_aware)} :
            \E res \in {_get_object_direct(store, fs_noncurrent, sp, get_exc, list_exc)} :
                /\ res.requests = 1 => list_exc = NoExc
                /\ fs_call' = [op |-> "get_object", path |-> path, prefix |-> <<>>,
                               out |-> res.out, requests |-> res.requests,
                               exc |-> res.exc.cls, sp |-> sp,
                               get |-> get_exc, list |-> list_exc]
    /\ fs_steps' = fs_steps + 1
    /\ fs_prev' = fs_call
    /\ UNCHANGED <<fs_noncurrent, fs_buckets, fs_version_aware, dircache, store>>
    /\ UNCHANGED fsOthers

\* C30: permission-denied fallback in single-object lookup.  When the direct
\* object-get fails with a permission error, _get_object makes the prefix
\* listing and returns the record of the object with exactly the path's name
\* (and generation, when one is given); FileNotFoundError is raised after a
\* permission error only when the store lists no such object; any other
\* failure of the get propagates without a second request.
C30_ForbiddenFallback ==
    fs_call.op = "get_object" =>
        LET q == Join(fs_call.sp.bucket, fs_call.sp.key)
            gen == fs_call.sp.generation
            exists == /\ q \in DOMAIN store
                      /\ gen /= <<>> => (gen = <<"7", "7">>
                                         \/ (gen = <<"7">> /\ q \in fs_noncurrent))
        IN  /\ (fs_call.get = PermissionDenied /\ fs_call.list = NoExc) =>
                /\ fs_call.requests = 2
                /\ exists => /\ fs_call.exc = None
                             /\ Len(fs_call.out) = 1
                             /\ fs_call.out[1].name = q
                             /\ fs_call.out[1].type = "file"
                             /\ fs_call.out[1].size = BLen(store[q].content)
                             /\ gen /= <<>> => fs_call.out[1].generation = gen
                /\ ~ exists => fs_call.exc = FileNotFoundError
            /\ (fs_call.get = PermissionDenied /\ fs_call.list /= NoExc) =>
                /\ fs_call.requests = 2
                /\ fs_call.exc = fs_call.list.cls
            /\ fs_call.get \in CallFailures \ {PermissionDenied} =>
                /\ fs_call.requests = 1
                /\ fs_call.exc = fs_call.get.cls
                /\ fs_call.out = <<>>

\* A lookup of an existing generation whose direct get was denied and whose
\* fallback listing returned the record
C30_Witness ==
    /\ fs_call.op = "get_object"
    /\ fs_call.get = PermissionDenied
    /\ fs_call.sp.generation = <<"7">>
    /\ fs_call.requests = 2
    /\ fs_call.exc = None
    /\ fs_call.out /= <<>>
    /\ fs_prev.op = "get_object"
    /\ fs_prev.get = PermissionDenied
    /\ fs_prev.exc = FileNotFoundError

(***************************************************************************)
(* A listing and a delete as concurrent tasks of one filesystem.  A task   *)
(* runs without interruption from one await of a store request to the      *)
(* next; the store processes a request at some moment while the task       *)
(* waits, and the task resumes at a later one.                             *)
(***************************************************************************)
NoTask == [pc |-> "idle", path |-> <<>>, out |-> <<>>, exc |-> None]

IdleInterleave == il_list = NoTask /\ il_rm = NoTask

\* The directories listed and the objects deleted by the two tasks
TaskListPaths == {P_b, P_ba}
TaskRmPaths == {F_a1, F_a2, F_c}

InitInterleave ==
    /\ il_list = NoTask
    /\ il_rm = NoTask
    /\ store \in {st \in FsStores : F_a1 \in DOMAIN st}
    /\ dircache \in {<<>>,
                     CacheListing(<<>>, P_ba,
                                  FetchedListing(store, P_b, <<"a", "/">>), <<>>)}

\* _list_objects(path) up to its first await: the cache is consulted, and a
\* usable cached listing (or, for a name the parent's listing lacks,
\* FileNotFoundError) ends the call; else the list request is sent.
ListBegins ==
    /\ il_list.pc = "idle"
    /\ \E path \in TaskListPaths :
        \E clisting \in {_ls_from_cache(dircache, path)} :
            LET hassubdirs == \E i \in DOMAIN clisting.files :
                                  /\ rstrip(clisting.files[i].name) = path
                                  /\ clisting.files[i].type = "directory"
            IN  il_list' =
                    IF clisting.kind = FileNotFoundError /\ split_path(path).key /= <<>>
                    THEN [pc |-> "done", path |-> path, out |-> <<>>,
                          exc |-> FileNotFoundError]
                    ELSE IF clisting.files /= <<>> /\ ~ hassubdirs
                    THEN [pc |-> "done", path |-> path, out |-> clisting.files,
                          exc |-> None]
                    ELSE [pc |-> "requested", path |-> path, out |-> <<>>, exc |-> None]
    /\ UNCHANGED <<il_rm, store, dircache>>
    /\ UNCHANGED ilOthers

\* The store answers the list request with what it holds at that moment.
ListAnswered ==
    /\ il_list.pc = "requested"
    /\ il_list' = [il_list EXCEPT
                      !.pc = "answered",
                      !.out = FetchedListing(store, split_path(il_list.path).bucket,
                                  ListingPrefix(split_path(il_list.path).key, <<>>))]
    /\ UNCHANGED <<il_rm, store, dircache>>
    /\ UNCHANGED ilOthers

\* _list_objects resumes with the answer: pseudodirs + items is stored in
\* the cache and returned (an empty answer for a path with a key goes on to
\* _get_object, which stores nothing).
ListResumes ==
    /\ il_list.pc = "answered"
    /\ \E res \in {ListObjectsWith(dircache, store, split_path(il_list.path),
                                   il_list.path, [kind |-> None, files |-> <<>>],
                                   il_list.out, <<>>)} :
        /\ il_list' = [il_list EXCEPT !.pc = "done", !.out = res.out, !.exc = res.exc]
        /\ dircache' = res.cache
    /\ UNCHANGED <<il_rm, store>>
    /\ UNCHANGED ilOthers

\* _rm_file(path) up to its await, and the store's processing of the DELETE:
\* the object is removed, or the answer is 404.
RmFileRequested ==
    /\ il_rm.pc = "idle"
    /\ \E path \in TaskRmPaths :
        IF path \in DOMAIN store
        THEN /\ store' = [q \in (DOMAIN store) \ {path} |-> store[q]]
             /\ il_rm' = [pc |-> "answered", path |-> path, out |-> <<>>, exc |-> None]
        ELSE /\ UNCHANGED store
             /\ il_rm' = [pc |-> "answered", path |-> path, out |-> <<>>,
                          exc |-> FileNotFoundError]
    /\ UNCHANGED <<il_list, dircache>>
    /\ UNCHANGED ilOthers

\* _rm_file resumes: after a successful DELETE the directory of the path is
\* invalidated; FileNotFoundError leaves the call before that.
RmFileResumes ==
    /\ il_rm.pc = "answered"
    /\ il_rm' = [il_rm EXCEPT !.pc = "done"]
    /\ dircache' = IF il_rm.exc = None
                   THEN invalidate_cache(dircache, dirname(_strip_protocol(il_rm.path)))
                   ELSE dircache
    /\ UNCHANGED <<il_list, store>>
    /\ UNCHANGED ilOthers

\* C32: no stale listing survives a delete under interleaving.  For every
\* interleaving of a listing of a directory with a successful delete of an
\* object in it, once both calls have completed no cached listing holds a
\* record of the deleted object.
C32_NoStaleListing ==
    (/\ il_list.pc = "done"
     /\ il_rm.pc = "done"
     /\ il_rm.exc = None
     /\ il_list.path = _parent(il_rm.path))
    => \A d \in DOMAIN dircache :
           \A i \in DOMAIN dircache[d] : dircache[d][i].name /= il_rm.path

(***************************************************************************)
(* Buckets: _rmdir, and _ls with refresh                                   *)
(***************************************************************************)
\* A second bucket, which holds no object
P_e == <<"e">>

\* buckets without the bucket named
WithoutBucket(buckets, bucket) == SelectSeq(buckets, LAMBDA x : x /= bucket)

\* GCSFileSystem._list_buckets over the buckets the project holds
_list_buckets_of(cache, buckets) ==
    IF Root \notin DOMAIN cache
    THEN Returned(MapBuckets(buckets),
                  [q \in (DOMAIN cache) \cup {Root} |->
                      IF q = Root THEN MapBuckets(buckets) ELSE cache[q]], 1)
    ELSE Returned(cache[Root], cache, 0)

\* if refresh: self.invalidate_cache(path)
Refreshed(cache, path, refresh) ==
    IF refresh THEN invalidate_cache(cache, path) ELSE cache

\* GCSFileSystem._ls(path, detail=True, refresh=refresh): a list request for
\* a bucket the project does not hold is answered 404.
_ls_refresh(cache, objects, buckets, path0, refresh) ==
    LET path == rstrip(_strip_protocol(path0))
    IN  Only({IF path = <<>> THEN _list_buckets_of(c1, buckets)
              ELSE Only({IF res.requests >= 1 /\ \A i \in DOMAIN buckets :
                                                    buckets[i] /= split_path(path).bucket
                         THEN Raised(FileNotFoundError, c1, 1)
                         ELSE res :
                            res \in {_list_objects(c1, objects, path, <<>>)}}) :
                 c1 \in {Refreshed(cache, path, refresh)}})

\* ls(path, detail=True, refresh=refresh)
FsLsRefresh ==
    /\ \E path \in {Root, P_b, P_ba, F_c, P_e}, refresh \in BOOLEAN :
        \E res \in {_ls_refresh(dircache, store, fs_buckets, path, refresh)} :
            /\ Called(IF refresh THEN "ls_refresh" ELSE "ls", path, <<>>, res)
            /\ dircache' = res.cache
    /\ UNCHANGED store
    /\ UNCHANGED fsOthers

\* _rmdir(bucket): nothing for a path with a "/"; else the DELETE of the
\* bucket (404 when the project has none of the name, 409 when it holds
\* objects), then the invalidation of the bucket and of "".
FsRmdir ==
    /\ fs_steps < MaxCalls
    /\ \E path \in {P_b, P_e, P_e \o <<"/">>, P_ba} :
        LET bucket == rstrip(path)
            exists == \E i \in DOMAIN fs_buckets : fs_buckets[i] = bucket
            empty == \A q \in DOMAIN store : split_path(q).bucket /= bucket
            exc == IF HasSlash(bucket) THEN None
                   ELSE IF ~ exists THEN FileNotFoundError
                   ELSE IF ~ empty THEN "HttpError"
                   ELSE None
            deleted == ~ HasSlash(bucket) /\ exc = None
        IN  /\ fs_call' = [op |-> "rmdir", path |-> path, prefix |-> <<>>, out |-> <<>>,
                           requests |-> IF HasSlash(bucket) THEN 0 ELSE 1, exc |-> exc]
            /\ fs_buckets' = IF deleted THEN WithoutBucket(fs_buckets, bucket)
                             ELSE fs_buckets
            /\ dircache' = IF deleted
                           THEN invalidate_cache(invalidate_cache(dircache, bucket), Root)
                           ELSE dircache
    /\ fs_steps' = fs_steps + 1
    /\ fs_prev' = fs_call
    /\ UNCHANGED <<fs_noncurrent, fs_version_aware, store>>
    /\ UNCHANGED fsOthers

\* C33: after _rmdir(bucket) succeeds, the cache holds no entry for the root
\* path "", so a root listing that follows re-fetches from the store and does
\* not show the deleted bucket.
C33_RmdirDropsBucketList ==
    /\ (fs_call.op = "rmdir" /\ fs_call.exc = None /\ fs_call.requests = 1)
           => Root \notin DOMAIN dircache
    /\ (/\ fs_prev.op = "rmdir" /\ fs_prev.exc = None /\ fs_prev.requests = 1
        /\ fs_call.op = "ls" /\ fs_call.path = Root)
           => /\ fs_call.requests >= 1
              /\ \A i \in DOMAIN fs_call.out :
                     fs_call.out[i].name /= rstrip(fs_prev.path) \o <<"/">>

\* C34: _ls(path, refresh=True) never answers from the cache.  For every
\* path, the root included, it issues a store request and returns (or
\* raises) what a filesystem with an empty cache would for the store as it
\* is.
C34_RefreshRefetches ==
    fs_call.op = "ls_refresh" =>
        /\ fs_call.requests >= 1
        /\ \E fresh \in {_ls_refresh(<<>>, store, fs_buckets, fs_call.path, FALSE)} :
               fs_call.out = fresh.out /\ fs_call.exc = fresh.exc

\* C4: after invalidate_cache(P) the cache holds no entry for P nor for any
\* ancestor of P up to the root, and a listing of any of those paths that
\* follows re-fetches from the store.
C4_InvalidateAncestors ==
    /\ fs_call.op = "invalidate" =>
           \A A \in AncestorsOrSelf(rstrip(fs_call.path)) : A \notin DOMAIN dircache
    /\ (/\ fs_prev.op = "invalidate"
        /\ fs_call.op = "ls"
        /\ rstrip(fs_call.path) \in AncestorsOrSelf(rstrip(fs_prev.path)))
           => fs_call.requests >= 1

C19_InvalidateAtOrUnder ==
    /\ fs_call.op = "invalidate" =>
           \A q \in DOMAIN dircache :
               /\ q /= rstrip(fs_call.path)
               /\ ~ StartsWith(q, rstrip(fs_call.path) \o <<"/">>)
               /\ rstrip(fs_call.path) /= Root
    /\ fs_call.op = "invalidate_all" => dircache = <<>>

\* C7: listing the same non-empty directory twice in a row with no prefix
\* returns identical results, and the second call issues no store request
\* unless the cached set for the path holds a directory entry named as the
\* path itself.
C7_ListTwice ==
    (/\ ListedPlain(fs_prev)
     /\ ListedPlain(fs_call)
     /\ rstrip(fs_prev.path) = rstrip(fs_call.path)
     /\ rstrip(fs_call.path) \in ImpliedDirs(store) \cup {Root})
        => /\ fs_call.out = fs_prev.out
           /\ fs_call.exc = None
           /\ \/ fs_call.requests = 0
              \/ \E i \in DOMAIN fs_prev.out :
                     /\ fs_prev.out[i].type = "directory"
                     /\ rstrip(fs_prev.out[i].name) = rstrip(fs_call.path)

\* a directory was fetched from the store by one listing and answered from
\* the cache by the next
C7_Witness ==
    /\ ListedPlain(fs_prev)
    /\ ListedPlain(fs_call)
    /\ fs_prev.path = P_ba
    /\ fs_call.path = P_ba
    /\ F_ad1 \in DOMAIN store
    /\ F_a1 \in DOMAIN store
    /\ fs_prev.requests = 1
    /\ fs_call.requests = 0
    /\ Len(fs_call.out) = 2

\* C39: no path other than the root is ever cached as an empty listing.
\* After any sequence of list and find operations (and writes, deletes and
\* invalidations between them) every cache entry of a non-root path holds at
\* least one record, and a listing that returned nothing has left no entry
\* for its path.
C39_NoEmptyListingCached ==
    /\ \A d \in DOMAIN dircache : d /= Root => dircache[d] /= <<>>
    /\ (fs_call.op = "ls" /\ fs_call.exc = None /\ fs_call.out = <<>>)
           => rstrip(_strip_protocol(fs_call.path)) \notin DOMAIN dircache

\* the bucket holds no object: find('b') found nothing, then ls('b') asked
\* the store, returned the empty listing and cached nothing for b
C39_Witness ==
    /\ store = <<>>
    /\ fs_prev.op = "find" /\ fs_prev.path = P_b
    /\ fs_call.op = "ls" /\ fs_call.path = P_b /\ fs_call.prefix = <<>>
    /\ fs_call.exc = None /\ fs_call.out = <<>> /\ fs_call.requests = 1
    /\ P_b \notin DOMAIN dircache

\* C8: a listing of directory D of bucket b returns one file record per
\* object stored directly in D, one directory record (size 0) per next path
\* segment with deeper keys, and nothing else.
C8_DirectChildren ==
    (/\ ListedPlain(fs_call)
     /\ rstrip(fs_call.path) \in ImpliedDirs(store) \cup {P_b})
        => /\ fs_call.exc = None
           /\ Listed(fs_call) = ChildFiles(store, rstrip(fs_call.path))
                                \cup ChildDirs(store, rstrip(fs_call.path))
           /\ Len(fs_call.out) = Cardinality(Listed(fs_call))

\* keys a/1, a/2, c: b/a/ was listed as its two files, then b/ as directory
\* b/a and file b/c
C8_Witness ==
    /\ DOMAIN store = {F_a1, F_a2, F_c}
    /\ ListedPlain(fs_prev)
    /\ fs_prev.path = P_ba \o <<"/">>
    /\ Listed(fs_prev) = {FileRecord(F_a1, 1, "absent"), FileRecord(F_a2, 1, "absent")}
    /\ ListedPlain(fs_call)
    /\ fs_call.path = P_b
    /\ Listed(fs_call) = {DirRecord(P_ba), FileRecord(F_c, 1, "absent")}

(***************************************************************************)
(* Reading back what _pipe_file / _put_file wrote: _info, _open, read      *)
(***************************************************************************)
EndsWithSlash(name) == name /= <<>> /\ name[Len(name)] = "/"

\* _info once the path is stripped and the cache lookups, the object get
\* and the listing it may need are at hand
InfoWith(cache, path, parent_cache, own, exact, listed) ==
    LET sp == split_path(path)
        hit == SelectSeq(parent_cache.files,
                         LAMBDA o : rstrip(o.name) = Join(sp.bucket, sp.key))
        out0 == SelectSeq(listed.out, LAMBDA o : rstrip(o.name) = path)
    IN  IF ~ HasSlash(path)
        THEN (IF \E i \in DOMAIN BucketOrder : BucketOrder[i] = path
              THEN Returned(<<DirRecord(path)>>, cache, 1)
              ELSE Raised(FileNotFoundError, listed.cache, 1 + listed.requests))
        ELSE IF parent_cache.kind = FileNotFoundError
        THEN Raised(FileNotFoundError, cache, 0)
        ELSE IF hit /= <<>> THEN Returned(<<hit[1]>>, cache, 0)
        ELSE IF own.kind = FileNotFoundError THEN Raised(FileNotFoundError, cache, 0)
        ELSE IF own.files /= <<>> THEN Returned(<<DirRecord(rstrip(path))>>, cache, 0)
        ELSE IF exact.exc = None
                /\ (exact.out[1].size /= 0 \/ ~ EndsWithSlash(exact.out[1].name))
        THEN (IF exact.out[1].contentEncoding = "absent"
              THEN Raised(KeyError, cache, exact.requests)
              ELSE IF exact.out[1].contentEncoding = "gzip"
              THEN Returned(<<[exact.out[1] EXCEPT !.size = NoneInt]>>, cache,
                            exact.requests)
              ELSE Returned(exact.out, cache, exact.requests))
        ELSE IF listed.exc /= None
        THEN Raised(listed.exc, listed.cache, exact.requests + listed.requests)
        ELSE IF out0 /= <<>>
        THEN Returned(<<out0[1]>>, listed.cache, exact.requests + listed.requests)
        ELSE IF listed.out /= <<>>
        THEN Returned(<<DirRecord(rstrip(path))>>, listed.cache,
                      exact.requests + listed.requests)
        ELSE Raised(FileNotFoundError, listed.cache, exact.requests + listed.requests)

\* GCSFileSystem._info(path); the value returned is a one-record listing.
\* (Each intermediate value is bound once, as an element of a singleton.)
_info(cache, objects, path0) ==
    Only({Only({InfoWith(cache, path, parent_cache, own, exact, listed) :
                    parent_cache \in {_ls_from_cache(cache, _parent(path))},
                    own \in {_ls_from_cache(cache, path)},
                    exact \in {_get_object(cache, objects, path)},
                    listed \in {_ls(cache, objects, path, <<>>)}}) :
              path \in {_strip_protocol(path0)}})

\* Stores that hold b/a/1 compressed at rest (contentEncoding gzip, two bytes
\* stored) next to plain objects
GzStores ==
    {[q \in S \cup {F_a1} |->
         IF q = F_a1 THEN [content |-> Run(0, 2), encoding |-> "gzip"]
         ELSE [content |-> Run(0, 1), encoding |-> "absent"]] :
        S \in SUBSET {F_a2, F_c}}

\* info(path)
FsInfo ==
    /\ \E path \in {F_a1, F_c, P_ba} :
        \E res \in {_info(dircache, store, path)} :
            /\ Called("info", path, <<>>, res)
            /\ dircache' = res.cache
    /\ UNCHANGED store
    /\ UNCHANGED fsOthers

\* C15: for a gzip content-encoded object every info() that answers returns
\* size None, whether the cached listing of the parent answers it or the
\* direct get of the object.
C15_GzipSizeUnknown ==
    (/\ fs_call.op = "info"
     /\ fs_call.path \in DOMAIN store
     /\ store[fs_call.path].encoding = "gzip")
        => /\ fs_call.exc = None
           /\ fs_call.out[1].size = NoneInt

\* C38: info() of an existing plain object (its resource has no
\* contentEncoding field) that the cache does not answer returns the file
\* record of the object with the size the API reports; and info() ends in a
\* record or in FileNotFoundError, never in another kind of error.
C38_InfoOfPlainObject ==
    (fs_call.op = "info") =>
        /\ fs_call.exc \in {None, FileNotFoundError}
        /\ (/\ fs_call.path \in DOMAIN store
            /\ store[fs_call.path].encoding = "absent"
            /\ fs_call.requests > 0)
               => /\ fs_call.exc = None
                  /\ fs_call.out = <<FileRecord(fs_call.path,
                                                BLen(store[fs_call.path].content),
                                                "absent")>>

\* GCSFile.read() of a handle at loc 0 whose size is known: the whole range
\* 0..size is fetched in one request
ReadPlain(content, size) ==
    IF size = 0 THEN <<>> ELSE BSlice(content, 0, Min(size, BLen(content)))

\* ls(parent) after the write
PipeLs ==
    /\ pf_pc = "written"
    /\ pf_result = NoResult
    /\ _parent(H_path) \notin DOMAIN dircache
    /\ dircache' = _ls(dircache, store, _parent(H_path), <<>>).cache
    /\ UNCHANGED pfVars
    /\ UNCHANGED svVars
    /\ UNCHANGED store
    /\ UNCHANGED pfOthers

\* open(path, "rb") after the write: _open asks info(path)
PipeOpen ==
    /\ pf_pc = "written"
    /\ pf_result = NoResult
    /\ LET i == _info(dircache, store, H_path)
       IN  /\ dircache' = i.cache
           /\ pf_result' = IF i.exc /= None
                           THEN [stage |-> i.exc, size |-> 0, data |-> <<>>]
                           ELSE [stage |-> "open", size |-> i.out[1].size, data |-> <<>>]
    /\ UNCHANGED <<pf_kind, pf_size, pf_consistency, pf_pc, pf_offset, pf_bit, pf_uoffset,
                   pf_out, pf_checker, pf_validated, pf_req, pf_short>>
    /\ UNCHANGED svVars
    /\ UNCHANGED store
    /\ UNCHANGED pfOthers

\* read() on the handle just opened
PipeRead ==
    /\ pf_result.stage = "open"
    /\ pf_result' = [stage |-> "read", size |-> pf_result.size,
                     data |-> ReadPlain(store[H_path].content, pf_result.size)]
    /\ UNCHANGED <<pf_kind, pf_size, pf_consistency, pf_pc, pf_offset, pf_bit, pf_uoffset,
                   pf_out, pf_checker, pf_validated, pf_req, pf_short>>
    /\ UNCHANGED svVars
    /\ UNCHANGED <<store, dircache>>
    /\ UNCHANGED pfOthers

C17_ValidationFatal ==
    [][ /\ (wh_validated' = "mismatch") => (wh_pc' = "failed")
        /\ (pf_validated' = "mismatch") => (pf_pc' = "failed")
        /\ (wh_validated = "mismatch" \/ pf_validated = "mismatch") =>
               /\ sv_received' = sv_received
               /\ sv_sessions' = sv_sessions
               /\ sv_multipart' = sv_multipart
               /\ wh_req' = wh_req
               /\ pf_req' = pf_req
               /\ store' = store ]_<<svVars, whVars, pfVars, store>>

\* a resumable upload of more than one chunk by _put_file was completed by
\* the store and failed the md5 validation
C17_Witness ==
    /\ pf_kind = "_put_file"
    /\ pf_consistency = "md5"
    /\ pf_size > PipeChunkSize
    /\ sv_done
    /\ sv_corrupt
    /\ pf_validated = "mismatch"
    /\ pf_pc = "failed"

\* C21: every chunk request of a resumable upload (write handle, _pipe_file,
\* _put_file) that does not carry the last byte of the payload has a length
\* that is a multiple of 2^18 bytes, and a final chunk without bytes is sent
\* as "bytes */total".
C21_ChunkGranularity ==
    \A req \in {wh_req, pf_req} :
        req /= NoRequest =>
            LET final == /\ req.total /= NoneInt
                         /\ \/ req.body = <<>>
                            \/ req.body[Len(req.body)][2] = req.total
            IN  /\ ~ final => BLen(req.body) % GCS_MIN_BLOCK_SIZE = 0
                /\ (final /\ req.body = <<>>) => req.empty

\* C3: round trip.  For every payload size around the 5 MiB threshold and
\* every consistency mode, writing the payload to a path (the store
\* accepting every chunk in full) succeeds, and reading the path back then
\* returns exactly the written bytes.
C3_RoundTrip ==
    /\ sv_shorts = 0 => pf_pc /= "failed"
    /\ pf_result.stage \notin {"unset", "open"} =>
           /\ pf_result.stage = "read"
           /\ pf_result.data = PipeData

(***************************************************************************)
(* Read engine: GCSTranscodingReadAheadCache and GCSFile.read              *)
(***************************************************************************)
\* Bounds: the decoded length of the object, the size reported for it (its
\* compressed size), the cache's block size, the length of one read() and
\* the number of read() calls of a run.
MaxContent == 4
MaxStored == 3
MaxBlock == 2
MaxRead == 3
MaxReads == 3

\* Python's s[i:j] for 0 <= i, on a sequence (indices count from 0).
Slice(s, i, j) == SubSeq(s, i + 1, Min(j, Len(s)))

\* The decoded content of an object of n bytes: every byte differs.
Content(n) == [i \in 1..n |-> i]

\* _cat_file sends a Range header unless start and end are both falsy.
RangeRequested(start, end) ==
    ~ ((start = NoneInt \/ start = 0) /\ (end = NoneInt \/ end = 0))

\* The store answers 416 ("not satisfiable") to a range that starts at or
\* after the end of the content.
NotSatisfiable(content, start, end) ==
    /\ RangeRequested(start, end)
    /\ (IF start = NoneInt THEN 0 ELSE start) >= Len(content)

_cat_file(content, start, end) ==
    IF ~ RangeRequested(start, end) THEN content
    ELSE Slice(content, IF start = NoneInt THEN 0 ELSE start,
               IF end = NoneInt THEN Len(content) ELSE end)

_fetch_range(content, start, end) ==
    IF NotSatisfiable(content, start, end) THEN <<>>
    ELSE _cat_file(content, start, end)

\* The result of a _fetch: the exception raised (None when it returns), the
\* bytes returned, the cache's block afterwards and the fetcher calls made.
FetchResult(exc, out, cache, start, end, fetches) ==
    [exc |-> exc, out |-> out, cache |-> cache, start |-> start, end |-> end,
     fetches |-> fetches]

\* _fetch with end given: the explicit range.
\* c is the cache object: [cache, start, end, size, blocksize].
FetchRangeBranch(c, content, start0, end0) ==
    IF c.size = NoneInt
    THEN \* `end > self.size` compares an int with None
         FetchResult(TypeError, <<>>, c.cache, c.start, c.end, <<>>)
    ELSE
    LET end1 == IF end0 > c.size THEN c.size ELSE end0
    IN  IF start0 >= c.size \/ start0 >= end1
        THEN FetchResult(None, <<>>, c.cache, c.start, c.end, <<>>)
        ELSE IF start0 >= c.start /\ end1 <= c.end
        THEN \* cache hit
             FetchResult(None, Slice(c.cache, start0 - c.start, end1 - c.start),
                         c.cache, c.start, c.end, <<>>)
        ELSE
        LET partial == c.start <= start0 /\ start0 < c.end
            part == IF partial THEN Slice(c.cache, start0 - c.start, Len(c.cache))
                    ELSE <<>>
            l == (end1 - start0) - Len(part)
            start2 == IF partial THEN c.end ELSE start0
            end2 == Min(c.size, end1 + c.blocksize)
            block == _fetch_range(content, start2, end2)
        IN  FetchResult(None, part \o Slice(block, 0, l), block, start2,
                        start2 + Len(block), <<(<<start2, end2>>)>>)

\* _fetch with end = None: read to end.
FetchToEndBranch_keepStart(c, content, start0) ==
    LET hit == start0 >= c.start /\ c.cache /= <<>>
        part == IF hit THEN Slice(c.cache, start0 - c.start, Len(c.cache)) ELSE <<>>
        start2 == IF hit THEN c.end ELSE start0
        block == _fetch_range(content, start2, NoneInt)
    IN  FetchResult(None, part \o block, block, start0, start0 + Len(block),
                    <<(<<start2, NoneInt>>)>>)
FetchToEndBranch(c, content, start0) ==
    LET hit == start0 >= c.start /\ c.cache /= <<>>
        part == IF hit THEN Slice(c.cache, start0 - c.start, Len(c.cache)) ELSE <<>>
        start2 == IF hit THEN c.end ELSE start0
        block == _fetch_range(content, start2, NoneInt)
    IN  FetchResult(None, part \o block, block, start2, start2 + Len(block),
                    <<(<<start2, NoneInt>>)>>)

_fetch(c, content, start, end) ==
    LET start0 == IF start = NoneInt THEN 0 ELSE start
    IN  IF end /= NoneInt THEN FetchRangeBranch(c, content, start0, end)
        ELSE FetchToEndBranch(c, content, start0)

TheCache == [cache |-> rd_cache, start |-> rd_start, end |-> rd_end,
             size |-> rd_size, blocksize |-> rd_blocksize]

InitRead ==
    /\ rd_content \in {Content(n) : n \in 0..MaxContent}
    /\ rd_size \in {NoneInt} \cup (1..MaxStored)
    /\ rd_blocksize \in 1..MaxBlock
    /\ rd_cache = <<>>
    /\ rd_start = 0
    /\ rd_end = 0
    /\ rd_loc = 0
    /\ rd_log = <<>>
    /\ rd_fetches = <<>>

IdleRead ==
    /\ rd_content = <<>>
    /\ rd_size = 0
    /\ rd_blocksize = 0
    /\ rd_cache = <<>>
    /\ rd_start = 0
    /\ rd_end = 0
    /\ rd_loc = 0
    /\ rd_log = <<>>
    /\ rd_fetches = <<>>

\* GCSFile.read(length): length < 0 (or None) asks for all remaining bytes.
read(length) ==
    LET length1 == IF length < 0 /\ rd_size /= NoneInt THEN rd_size - rd_loc
                   ELSE length
        r == _fetch(TheCache, rd_content, rd_loc,
                    IF length1 > 0 THEN rd_loc + length1 ELSE NoneInt)
    IN  IF length1 = 0
        THEN /\ rd_log' = Append(rd_log, [length |-> length, out |-> <<>>, exc |-> None])
             /\ rd_fetches' = <<>>
             /\ UNCHANGED <<rd_cache, rd_start, rd_end, rd_loc>>
        ELSE /\ rd_log' = Append(rd_log, [length |-> length, out |-> r.out, exc |-> r.exc])
             /\ rd_fetches' = r.fetches
             /\ rd_cache' = r.cache
             /\ rd_start' = r.start
             /\ rd_end' = r.end
             /\ rd_loc' = rd_loc + Len(r.out)

Read ==
    /\ Len(rd_log) < MaxReads
    /\ \E length \in (-1)..MaxRead : read(length)
    /\ UNCHANGED <<rd_content, rd_size, rd_blocksize>>
    /\ UNCHANGED rdOthers

\* C5: for a transcoded object, a read of n > 0 bytes on a fresh handle followed
\* by a read-all returns, concatenated, the full decoded content: neither read
\* raises, the read-all starts where the partial read ended, and neither is
\* truncated at the reported (compressed) size.
C5_ReadAllAfterPartial ==
    (/\ Len(rd_log) >= 2
     /\ rd_log[1].length > 0
     /\ rd_log[2].length = -1)
    => /\ rd_log[1].exc = None
       /\ rd_log[2].exc = None
       /\ rd_log[1].out \o rd_log[2].out = rd_content

\* cache._fetch(start, None) called on the cache as the reads have left it,
\* at any offset: the call is logged with its offset.
FetchToEnd ==
    /\ Len(rd_log) < MaxReads
    /\ \E start \in 0..MaxContent :
           \E r \in {_fetch(TheCache, rd_content, start, NoneInt)} :
               /\ rd_log' = Append(rd_log, [length |-> -2, out |-> r.out, exc |-> r.exc,
                                            start |-> start])
               /\ rd_fetches' = r.fetches
               /\ rd_cache' = r.cache
               /\ rd_start' = r.start
               /\ rd_end' = r.end
    /\ UNCHANGED <<rd_content, rd_size, rd_blocksize, rd_loc>>
    /\ UNCHANGED rdOthers

\* C22: read to end in the unknown-length cache.  _fetch(s, None), for an
\* offset s before, inside or beyond the retained block, returns exactly the
\* content from s to the end of the object, issues one open-ended fetch, and
\* leaves as the retained block exactly what that fetch returned.
C22_FetchToEnd ==
    \A i \in DOMAIN rd_log :
        rd_log[i].length = -2 =>
            /\ rd_log[i].exc = None
            /\ rd_log[i].out = Slice(rd_content, rd_log[i].start, Len(rd_content))
            /\ i = Len(rd_log) =>
                   /\ Len(rd_fetches) = 1
                   /\ rd_fetches[1][2] = NoneInt
                   /\ rd_cache = Slice(rd_content, rd_fetches[1][1], Len(rd_content))
                   /\ rd_start = rd_fetches[1][1]
                   /\ rd_end = rd_start + Len(rd_cache)

\* ----------------------------------------------------------------------
\* Writes to a destination path: _cp_file, _put_file, _pipe_file

\* Destinations: b/c plain, with a generation as fragment and as query
\* parameter, and with a fragment that is no integer (part of the key).
WriteDestinations ==
    {F_c, F_c \o <<"#", "7">>, F_c \o <<"?", "generation=", "7">>, F_c \o <<"#", "k">>}
WriteSources == {F_c, F_a1}

\* What a write leaves: the outcome of the call and the objects of the store
Wrote(res, objects) == [res |-> res, objects |-> objects]

\* _cp_file(path1, path2) where the rewrite is done after `rounds` requests:
\* a destination with a generation raises before any request; the store
\* answers 404 for a source it does not hold.
_cp_file(cache, objects, version_aware, path1, path2, rounds) ==
    LET s1 == _split_path(path1, version_aware)
        s2 == _split_path(path2, version_aware)
        src == Join(s1.bucket, s1.key)
        dst == Join(s2.bucket, s2.key)
    IN  IF s2.generation /= <<>>
        THEN Wrote(Raised(ValueError, cache, 0), objects)
        ELSE IF src \notin DOMAIN objects
        THEN Wrote(Raised(FileNotFoundError, cache, 1), objects)
        ELSE Wrote(Returned(<<>>, invalidate_cache(cache, _parent(path2)), rounds),
                   [q \in (DOMAIN objects) \cup {dst} |->
                       IF q = dst THEN objects[src] ELSE objects[q]])

\* _put_file(lpath, rpath) for a local file of one byte, or a local
\* directory (isdir), which is skipped.
_put_file(cache, objects, version_aware, isdir, rpath) ==
    LET sp == _split_path(rpath, version_aware)
    IN  IF isdir THEN Wrote(Returned(<<>>, cache, 0), objects)
        ELSE IF sp.generation /= <<>>
        THEN Wrote(Raised(ValueError, cache, 0), objects)
        ELSE Wrote(Returned(<<>>, invalidate_cache(cache, _parent(rpath)), 1),
                   Put(objects, Join(sp.bucket, sp.key), Run(0, 1)))

\* _pipe_file(path, data) for a payload of one byte (simple_upload): the
\* generation of the split is not looked at.
_pipe_file(cache, objects, version_aware, path) ==
    LET sp == _split_path(path, version_aware)
    IN  Wrote(Returned(<<>>, invalidate_cache(cache, _parent(path)), 1),
              Put(objects, Join(sp.bucket, sp.key), Run(0, 1)))

FsCpFile ==
    /\ \E path1 \in WriteSources, path2 \in WriteDestinations, rounds \in 1..2 :
        \E w \in {_cp_file(dircache, store, fs_version_aware, path1, path2, rounds)} :
            /\ Called("cp_file", path2, <<>>, w.res)
            /\ dircache' = w.res.cache
            /\ store' = w.objects
    /\ UNCHANGED fsOthers

FsPutFile ==
    /\ \E rpath \in WriteDestinations, isdir \in BOOLEAN :
        \E w \in {_put_file(dircache, store, fs_version_aware, isdir, rpath)} :
            /\ Called(IF isdir THEN "put_dir" ELSE "put_file", rpath, <<>>, w.res)
            /\ dircache' = w.res.cache
            /\ store' = w.objects
    /\ UNCHANGED fsOthers

FsPipeFile ==
    /\ \E path \in WriteDestinations :
        \E w \in {_pipe_file(dircache, store, fs_version_aware, path)} :
            /\ Called("pipe_file", path, <<>>, w.res)
            /\ dircache' = w.res.cache
            /\ store' = w.objects
    /\ UNCHANGED fsOthers

\* C37: every write operation rejects a destination path that names a
\* specific generation: _cp_file, _put_file and _pipe_file raise ValueError
\* for it before any store request is issued, and the cache (and the store)
\* stay as they were.
C37_GenerationRejected ==
    [][ (/\ fs_steps' = fs_steps + 1
         /\ fs_call'.op \in {"cp_file", "put_file", "put_dir", "pipe_file"}
         /\ _split_path(fs_call'.path, fs_version_aware).generation /= <<>>)
        => /\ fs_call'.exc = ValueError
           /\ fs_call'.requests = 0
           /\ dircache' = dircache
           /\ store' = store ]_<<fsVars, dircache, store>>

\* C31: read-cache block invariant.  After any sequence of range fetches
\* and read-to-end fetches, end = start + len(retained block), and the
\* retained block is the object's content at [start, end).
C31_BlockInvariant ==
    /\ rd_end = rd_start + Len(rd_cache)
    /\ rd_cache = Slice(rd_content, rd_start, rd_end)

\* A read-to-end fetch that used the block a range fetch had left and
\* retained a block that starts past the beginning of the object
C31_Witness ==
    /\ Len(rd_log) >= 2
    /\ rd_log[1].length > 0
    /\ rd_log[1].exc = None
    /\ rd_log[Len(rd_log)].length = -2
    /\ rd_start > 0
    /\ rd_cache /= <<>>

(***************************************************************************)
(* Specifications                                                          *)
(***************************************************************************)
vars == <<cgVars, rdVars, rmVars, dircache, svVars, whVars, store, pfVars, fsVars,
          spVars, foVars, ssVars, ilVars>>

IdleServer == InitServer /\ ~ sv_corrupt


InitC == InitCoalesce /\ IdleSplit /\ IdleRead /\ IdleRm /\ IdleCache /\ IdleServer /\ IdleHandle
         /\ IdleStore /\ IdlePipe /\ IdleFS
         /\ IdleFan /\ IdleSession /\ IdleInterleave
NextC == CallCoalesce
SpecCoalesce == InitC /\ [][NextC]_vars

InitS == InitSplit /\ IdleCoalesce /\ IdleRead /\ IdleRm /\ IdleCache /\ IdleServer
         /\ IdleHandle /\ IdleStore /\ IdlePipe /\ IdleFS
         /\ IdleFan /\ IdleSession /\ IdleInterleave
NextS == CallSplit
SpecSplit == InitS /\ [][NextS]_vars

InitR == InitRead /\ IdleCoalesce /\ IdleSplit /\ IdleRm /\ IdleCache /\ IdleServer /\ IdleHandle
         /\ IdleStore /\ IdlePipe /\ IdleFS
         /\ IdleFan /\ IdleSession /\ IdleInterleave
NextR == Read
SpecRead == InitR /\ [][NextR]_vars

InitD == InitRm /\ IdleCoalesce /\ IdleSplit /\ IdleRead /\ IdleServer /\ IdleHandle
         /\ IdleStore /\ IdlePipe /\ IdleFS
         /\ IdleFan /\ IdleSession /\ IdleInterleave
NextD == RmRound \/ RmRequestFails \/ RmSleep \/ _rm
SpecRm == InitD /\ [][NextD]_vars

InitU == InitHandle /\ InitServer /\ dircache \in H_caches
         /\ IdleCoalesce /\ IdleSplit /\ IdleRead /\ IdleRm /\ IdleStore /\ IdlePipe /\ IdleFS
         /\ IdleFan /\ IdleSession /\ IdleInterleave
NextU == Write \/ Close \/ commit \/ _initiate_upload \/ UploadChunkSkip
         \/ UploadChunkStep \/ discard
SpecUpload == InitU /\ [][NextU]_vars

InitP == InitPipe /\ InitServer /\ dircache \in H_caches /\ IdleStore
         /\ IdleCoalesce /\ IdleSplit /\ IdleRead /\ IdleRm /\ IdleHandle /\ IdleFS
         /\ IdleFan /\ IdleSession /\ IdleInterleave
NextP == simple_upload \/ initiate_upload \/ PipeLoop \/ upload_chunk
         \/ PipeLs \/ PipeOpen \/ PipeRead
SpecPipe == InitP /\ [][NextP]_vars

\* Uploads of either kind: by a write handle, or by _pipe_file / _put_file
InitT == InitU \/ InitP
NextT == NextU \/ NextP
SpecTransfer == InitT /\ [][NextT]_vars

InitB == InitFan /\ IdleCoalesce /\ IdleSplit /\ IdleRead /\ IdleRm /\ IdleCache
         /\ IdleServer /\ IdleHandle /\ IdleStore /\ IdlePipe /\ IdleFS /\ IdleSession /\ IdleInterleave
NextB == GroupEnds \/ RmGather
SpecFan == InitB /\ [][NextB]_vars

InitN == InitSession /\ IdleCoalesce /\ IdleSplit /\ IdleRead /\ IdleRm /\ IdleCache
         /\ IdleServer /\ IdleHandle /\ IdleStore /\ IdlePipe /\ IdleFS /\ IdleFan /\ IdleInterleave
NextN == _set_session \/ _request
SpecSession == InitN /\ [][NextN]_vars

\* Uploads by a write handle whose chunk requests may raise
InitY == InitU /\ ~ sv_corrupt /\ dircache = <<>>
NextY == NextU \/ UploadChunkFails \/ FlushAgain
SpecResume == InitY /\ [][NextY]_vars

\* Uploads by a write handle on which commit() may also be called without a
\* session
InitV == InitY
NextV == NextU \/ CommitWithoutSession
SpecDiscard == InitV /\ [][NextV]_vars

InitE == InitR
NextE == Read \/ FetchToEnd
SpecFetch == InitE /\ [][NextE]_vars

InitF == InitFS /\ IdleServer /\ IdleCoalesce /\ IdleSplit /\ IdleRead /\ IdleRm /\ IdleHandle
         /\ IdlePipe
         /\ IdleFan /\ IdleSession /\ IdleInterleave
NextF == FsLs \/ FsFind \/ FsPipe \/ _rm_file \/ FsInvalidate \/ FsInvalidateAll
SpecFS == InitF /\ [][NextF]_vars

InitI == store \in GzStores /\ dircache = <<>> /\ IdleFS
         /\ IdleServer /\ IdleCoalesce /\ IdleSplit /\ IdleRead /\ IdleRm /\ IdleHandle /\ IdlePipe
         /\ IdleFan /\ IdleSession /\ IdleInterleave
NextI == FsLs \/ FsInfo \/ FsInvalidate
SpecInfo == InitI /\ [][NextI]_vars

\* Finds without a prefix
InitX == InitF
NextX == FsFindPlain \/ FsInvalidate
SpecFind == InitX /\ [][NextX]_vars

\* Listings and finds over a bucket with object versioning that holds some of
\* the objects c and a/1
InitL ==
    /\ store \in {s \in FsStores : DOMAIN s \subseteq {F_c, F_a1}}
    /\ dircache = <<>>
    /\ fs_call = NoCall /\ fs_prev = NoCall /\ fs_steps = 0
    /\ fs_noncurrent \in SUBSET (DOMAIN store)
    /\ fs_buckets = BucketOrder
    /\ fs_version_aware = FALSE
    /\ IdleServer /\ IdleCoalesce /\ IdleSplit /\ IdleRead /\ IdleRm /\ IdleHandle
    /\ IdlePipe /\ IdleFan /\ IdleSession /\ IdleInterleave
NextL == FsLs \/ FsLsVersions \/ FsFindPlain \/ FsInvalidate
SpecListing == InitL /\ [][NextL]_vars

\* Lookups of single objects on an empty listing cache
InitK ==
    /\ InitL
    /\ DOMAIN store \in {{}, {F_c}, {F_c, F_a1}}
    /\ fs_noncurrent \subseteq {F_c}
NextK == FsGetObject
SpecLookup == InitK /\ [][NextK]_vars

\* A listing and a delete that run concurrently
InitJ == InitInterleave /\ IdleCoalesce /\ IdleSplit /\ IdleRead /\ IdleRm /\ IdleServer
         /\ IdleHandle /\ IdlePipe /\ IdleFS /\ IdleFan /\ IdleSession
NextJ == ListBegins \/ ListAnswered \/ ListResumes \/ RmFileRequested \/ RmFileResumes
SpecInterleave == InitJ /\ [][NextJ]_vars

\* Listings, with and without refresh, and bucket deletes in a project that
\* holds the bucket b with objects and may hold the empty bucket e
InitM ==
    /\ store \in {st \in FsStores : DOMAIN st \subseteq {F_c, F_a1} /\ DOMAIN st /= {}}
    /\ dircache = <<>>
    /\ fs_call = NoCall /\ fs_prev = NoCall /\ fs_steps = 0
    /\ fs_noncurrent = {}
    /\ fs_buckets \in {<<P_b>>, <<P_b, P_e>>}
    /\ fs_version_aware = FALSE
    /\ IdleServer /\ IdleCoalesce /\ IdleSplit /\ IdleRead /\ IdleRm /\ IdleHandle
    /\ IdlePipe /\ IdleFan /\ IdleSession /\ IdleInterleave
NextM == FsLsRefresh \/ FsRmdir
SpecBuckets == InitM /\ [][NextM]_vars


\* Writes to destinations with and without a generation, on a filesystem
\* that is version aware or not; listings fill the cache
InitW ==
    /\ store \in {s \in FsStores : DOMAIN s \subseteq {F_c, F_a1}}
    /\ dircache = <<>>
    /\ fs_call = NoCall /\ fs_prev = NoCall /\ fs_steps = 0
    /\ fs_noncurrent = {}
    /\ fs_buckets = BucketOrder
    /\ fs_version_aware \in BOOLEAN
    /\ IdleServer /\ IdleCoalesce /\ IdleSplit /\ IdleRead /\ IdleRm /\ IdleHandle
    /\ IdlePipe /\ IdleFan /\ IdleSession /\ IdleInterleave
NextW == FsCpFile \/ FsPutFile \/ FsPipeFile \/ FsLs
SpecWrite == InitW /\ [][NextW]_vars
====
